---------------------------- MODULE Spec2Model ----------------------------
(***************************************************************************)
(* A model of the triples-management and training-instance subsystem of    *)
(* pykeen (src/pykeen/triples/triples_factory.py, instances.py).           *)
(*                                                                         *)
(* A triple is a tuple <<head, relation, tail>>; a tensor of mapped        *)
(* triples of shape (n, 3) is a sequence of n triples.  Every operation of *)
(* the code is an operator computing what the code computes, and an action *)
(* applying it to inputs drawn from bounded sets.  Several specifications  *)
(* share the module, one per group of operations; the variables of the     *)
(* groups a specification does not use stay at their idle value.           *)
(***************************************************************************)
EXTENDS Integers, Sequences, FiniteSets, TLC

VARIABLES
    ctorArgs,   \* arguments of a pending CoreTriplesFactory(...) call
    ctorOut,    \* its outcome: the factory built, or the error raised
    tf,         \* the factory a method is called on (self)
    call,       \* the method called on tf and its arguments
    ret         \* what the call raised and the factories it returned

VARIABLES
    labArgs,    \* arguments of a pending TriplesFactory.from_labeled_triples call
    labTf,      \* its outcome: the labeled factory built, or the error raised
    labOut,     \* the label-based triples label_triples returned last
    labBack,    \* the ID-based triples map_triples returned last
    mapArgs,    \* arguments of a pending _map_triples_elements_to_ids call
    mapOut,     \* the tensor it returned
    lcwa,       \* the LCWAInstances built last
    slcwa,      \* a BatchedSLCWAInstances object and the epoch iterated over it
    cond,       \* a Condenser: the tensor it is made from, and its application
    sub,        \* a SubGraphSLCWAInstances object and the subgraph_sample call on it
    es          \* an EarlyStoppingLogic object and the outcome of its last report

vars == <<ctorArgs, ctorOut, tf, call, ret, labArgs, labTf, labOut, labBack, mapArgs, mapOut, lcwa, slcwa, cond, sub, es>>

ctorVars == <<ctorArgs, ctorOut>>
factoryVars == <<tf, call, ret>>
labelVars == <<labArgs, labTf, labOut, labBack>>
mapVars == <<mapArgs, mapOut>>
instanceVars == <<lcwa, slcwa>>
auxVars == <<cond, sub, es>>

(***************************************************************************)
(* Bounds of the construction specification.                               *)
(***************************************************************************)
CtorMaxId == 1
CtorMaxRows == 2

(***************************************************************************)
(* Bounds of the split specification.                                      *)
(***************************************************************************)
SplitMaxEnt == 2
SplitMaxRel == 1
SplitMaxRows == 2
SplitMaxParts == 3

(***************************************************************************)
(* Bounds of the merge specification.                                      *)
(***************************************************************************)
MergeMaxEnt == 2
MergeMaxRows == 1
MergeMaxOthers == 2

(***************************************************************************)
(* Bounds of the labeling model: rows of a label-based triple array, and   *)
(* the largest ID of a caller-supplied mapping.                            *)
(***************************************************************************)
LabMaxRows == 2
LabMaxId == 2
MapMaxRows == 2
MapMaxId == 1

(***************************************************************************)
(* Bounds of the LCWA instances model: entities and rows of the factory    *)
(* the instances are created from.                                         *)
(***************************************************************************)
LcwaMaxEnt == 3
LcwaMaxRows == 3

(***************************************************************************)
(* Bounds of the batched sLCWA model: triples, batch size and DataLoader   *)
(* worker processes.                                                       *)
(***************************************************************************)
BatchMaxTriples == 3
BatchMaxSize == 2
BatchMaxWorkers == 2

(***************************************************************************)
(* Bounds of the restriction model.                                        *)
(***************************************************************************)
RestrictMaxEnt == 2
RestrictMaxRel == 1
RestrictMaxRows == 2

(***************************************************************************)
(* Bounds of the clone model: rows of the tensors and values of the        *)
(* metadata entries.                                                       *)
(***************************************************************************)
CloneMaxRows == 1
CloneMaxValue == 1

(***************************************************************************)
(* Generic helpers on sequences and sets.                                  *)
(***************************************************************************)
Range(s) == {s[i] : i \in 1..Len(s)}

SeqsUpTo(S, n) == UNION {[1..k -> S] : k \in 0..n}

Max(S) == CHOOSE x \in S : \A y \in S : y <= x

Min(S) == CHOOSE x \in S : \A y \in S : x <= y

\* The rows of s at the indices I that are >= i, in their order (s[I]).
RECURSIVE RowsFrom(_, _, _)
RowsFrom(s, I, i) ==
    IF i > Len(s) THEN <<>>
    ELSE (IF i \in I THEN <<s[i]>> ELSE <<>>) \o RowsFrom(s, I, i + 1)

RowsAt(s, I) == RowsFrom(s, I, 1)

\* The number of occurrences of x in s.
Count(s, x) == Cardinality({i \in 1..Len(s) : s[i] = x})

\* Rows compared column by column.
LexLess(a, b) ==
    \E i \in 1..Len(a) : a[i] < b[i] /\ \A j \in 1..(i - 1) : a[j] = b[j]

IsNonDecreasing(s) == \A i \in 1..(Len(s) - 1) : ~LexLess(s[i + 1], s[i])

\* Tensors of at most n rows over the rows S, up to the order of the rows.
TensorsUpTo(S, n) == {s \in SeqsUpTo(S, n) : IsNonDecreasing(s)}

(***************************************************************************)
(* Columns of a triple.                                                    *)
(***************************************************************************)
ColH(t) == t[1]
ColR(t) == t[2]
ColT(t) == t[3]

NoFactory == [oid |-> 0]

(***************************************************************************)
(* Optional arguments: None is the empty tuple, a given value x is <<x>>.  *)
(***************************************************************************)
None == <<>>
Some(x) == <<x>>
IsNone(o) == Len(o) = 0
Val(o) == o[1]

(***************************************************************************)
(* Python dicts (label-to-ID mappings, metadata) are sets of <<key, value>> *)
(* pairs with unique keys.                                                 *)
(***************************************************************************)
Keys(d) == {p[1] : p \in d}
Values(d) == {p[2] : p \in d}
Get(d, k) == (CHOOSE p \in d : p[1] = k)[2]

\* {**a, **b}: the union of two dicts, b's value on a common key.
DictUnionFirstWins(a, b) == a \cup {p \in b : p[1] \notin Keys(a)}

DictUnion(a, b) == {p \in a : p[1] \notin Keys(b)} \cup b

(***************************************************************************)
(* KGInfo.__init__: num_relations is the number of real relations; it is   *)
(* doubled when inverse triples are created.                               *)
(***************************************************************************)
\* A KGInfo that does not count the inverse relations.
KGInfoUndoubled(num_entities, num_relations, create_inverse_triples) ==
    [num_entities |-> num_entities,
     real_num_relations |-> num_relations,
     num_relations |-> num_relations,
     create_inverse_triples |-> create_inverse_triples]

KGInfo(num_entities, num_relations, create_inverse_triples) ==
    [num_entities |-> num_entities,
     real_num_relations |-> num_relations,
     num_relations |-> IF create_inverse_triples THEN num_relations * 2 ELSE num_relations,
     create_inverse_triples |-> create_inverse_triples]

(***************************************************************************)
(* valid_triple_id_range: every ID is >= 0, heads and tails are below      *)
(* num_entities and relations below num_relations.                         *)
(***************************************************************************)
ValidIgnoringNegative(mapped_triples, num_entities, num_relations) ==
    /\ \A i \in 1..Len(mapped_triples) :
          ColH(mapped_triples[i]) < num_entities /\ ColT(mapped_triples[i]) < num_entities
    /\ \A i \in 1..Len(mapped_triples) : ColR(mapped_triples[i]) < num_relations

valid_triple_id_range(mapped_triples, num_entities, num_relations) ==
    /\ \A i \in 1..Len(mapped_triples) : \A c \in 1..3 : mapped_triples[i][c] >= 0
    /\ \A i \in 1..Len(mapped_triples) :
          ColH(mapped_triples[i]) < num_entities /\ ColT(mapped_triples[i]) < num_entities
    /\ \A i \in 1..Len(mapped_triples) : ColR(mapped_triples[i]) < num_relations

(***************************************************************************)
(* CoreTriplesFactory.__init__ for an (n, 3) integer tensor: the KGInfo    *)
(* fields, the triples and the metadata, or a ValueError when the range    *)
(* check fails.  The range check is made against the num_relations         *)
(* argument, that is, against the number of real relations.  The result is *)
(* [raised, tf]: the error raised ("none" if none) and the object built.   *)
(* A core factory carries no labeling; the fields are present and empty so *)
(* that all factory records have one shape.                                *)
(***************************************************************************)
NewFactory(oid, labeled, mapped_triples, info, metadata, entity_to_id, relation_to_id) ==
    [oid |-> oid,
     labeled |-> labeled,
     mapped_triples |-> mapped_triples,
     num_entities |-> info.num_entities,
     real_num_relations |-> info.real_num_relations,
     num_relations |-> info.num_relations,
     create_inverse_triples |-> info.create_inverse_triples,
     metadata |-> metadata,
     entity_to_id |-> entity_to_id,
     relation_to_id |-> relation_to_id]

Raise(error) == [raised |-> error, tf |-> NoFactory]

Return(f) == [raised |-> "none", tf |-> f]

\* The variables of a group of operations a specification does not use.
IdleCtor == ctorArgs = <<>> /\ ctorOut = Raise("idle")
IdleFactory == tf = NoFactory /\ call = [op |-> "idle"] /\ ret = [op |-> "idle"]
IdleLabel ==
    /\ labArgs = <<>>
    /\ labTf = Raise("idle")
    /\ labOut = [done |-> FALSE]
    /\ labBack = [done |-> FALSE]
IdleMap == mapArgs = <<>> /\ mapOut = [done |-> FALSE]
IdleLCWA == lcwa = [done |-> FALSE]
IdleSLCWA == slcwa = [phase |-> "idle"]
IdleAux == cond = [phase |-> "idle"] /\ sub = [phase |-> "idle"] /\ es = [phase |-> "idle"]

CoreTriplesFactory(oid, mapped_triples, num_entities, num_relations, create_inverse_triples, metadata) ==
    IF valid_triple_id_range(mapped_triples, num_entities, num_relations)
    THEN Return(NewFactory(oid, FALSE, mapped_triples,
                           KGInfo(num_entities, num_relations, create_inverse_triples),
                           metadata, {}, {}))
    ELSE Raise("ValueError")

(***************************************************************************)
(* Labeling.max_id and TriplesFactory.__init__ without explicit counts:    *)
(* the counts are inferred from the label mappings, then the core          *)
(* constructor runs and the labelings are attached.                        *)
(***************************************************************************)
max_id(label_to_id) == Max(Values(label_to_id)) + 1

\* pykeen.utils.invert_mapping: the inverse of an injective mapping; a mapping
\* with two keys for one value has none.
IsInjective(mapping) == Cardinality(Values(mapping)) = Cardinality(mapping)

invert_mapping(mapping) == {<<p[2], p[1]>> : p \in mapping}

\* Labeling(label_to_id): __post_init__ inverts the mapping, max_id takes the
\* maximum of its values; either raises ValueError (non-injective, empty).
LabelingRaises(label_to_id) == ~IsInjective(label_to_id) \/ label_to_id = {}

TriplesFactory(oid, mapped_triples, entity_to_id, relation_to_id, create_inverse_triples, metadata) ==
    IF LabelingRaises(entity_to_id) \/ LabelingRaises(relation_to_id)
    THEN Raise("ValueError")
    ELSE
    LET core == CoreTriplesFactory(oid, mapped_triples, max_id(entity_to_id),
                                   max_id(relation_to_id), create_inverse_triples, metadata)
    IN  IF core.raised # "none"
        THEN core
        ELSE Return([core.tf EXCEPT !.labeled = TRUE,
                                    !.entity_to_id = entity_to_id,
                                    !.relation_to_id = relation_to_id])

(***************************************************************************)
(* clone_and_exchange_triples: a new factory with the given triples that   *)
(* shares the counts (and, for a TriplesFactory, the labelings) of self.   *)
(* The metadata is {**extra_metadata, **self.metadata}.                    *)
(***************************************************************************)
CloneFlag(self, create_inverse_triples) ==
    IF IsNone(create_inverse_triples) THEN self.create_inverse_triples
    ELSE Val(create_inverse_triples)

CloneMetadata(self, extra_metadata, keep_metadata) ==
    DictUnion(extra_metadata, IF keep_metadata THEN self.metadata ELSE {})

Core_clone_and_exchange_triples(self, oid, mapped_triples, extra_metadata, keep_metadata, create_inverse_triples) ==
    CoreTriplesFactory(oid, mapped_triples, self.num_entities, self.real_num_relations,
                       CloneFlag(self, create_inverse_triples),
                       CloneMetadata(self, extra_metadata, keep_metadata))

TF_clone_and_exchange_triples(self, oid, mapped_triples, extra_metadata, keep_metadata, create_inverse_triples) ==
    TriplesFactory(oid, mapped_triples, self.entity_to_id, self.relation_to_id,
                   CloneFlag(self, create_inverse_triples),
                   CloneMetadata(self, extra_metadata, keep_metadata))

\* The method the call self.clone_and_exchange_triples(...) resolves to.
clone_and_exchange_triples(self, oid, mapped_triples, extra_metadata, keep_metadata, create_inverse_triples) ==
    IF self.labeled
    THEN TF_clone_and_exchange_triples(self, oid, mapped_triples, extra_metadata,
                                       keep_metadata, create_inverse_triples)
    ELSE Core_clone_and_exchange_triples(self, oid, mapped_triples, extra_metadata,
                                         keep_metadata, create_inverse_triples)

(***************************************************************************)
(* The factories the specifications start from: a core factory or a        *)
(* labeled one over num_entities entities and num_relations relations,     *)
(* with the labels numbered in their order.                                *)
(***************************************************************************)
EntityLabels == <<"a", "b", "c", "d", "e", "f">>
RelationLabels == <<"r", "s", "t", "u", "v", "w">>

NaturalLabeling(labels, n) == {<<labels[i + 1], i>> : i \in 0..(n - 1)}

Triples(num_entities, num_relations) ==
    (0..(num_entities - 1)) \X (0..(num_relations - 1)) \X (0..(num_entities - 1))

FactoriesOver(num_entities, num_relations, maxRows, metadata) ==
    UNION {{CoreTriplesFactory(1, mt, num_entities, num_relations, inv, metadata).tf,
            TriplesFactory(1, mt, NaturalLabeling(EntityLabels, num_entities),
                           NaturalLabeling(RelationLabels, num_relations), inv, metadata).tf} :
           mt \in TensorsUpTo(Triples(num_entities, num_relations), maxRows),
           inv \in BOOLEAN}

Factories(maxEnt, maxRel, maxRows, metadata) ==
    UNION {FactoriesOver(e, r, maxRows, metadata) : e \in 1..maxEnt, r \in 1..maxRel}

Entities(mapped_triples) ==
    {ColH(mapped_triples[i]) : i \in 1..Len(mapped_triples)}
        \cup {ColT(mapped_triples[i]) : i \in 1..Len(mapped_triples)}

Relations(mapped_triples) == {ColR(mapped_triples[i]) : i \in 1..Len(mapped_triples)}

\* torch.cat of the tensors of the factories fs[i], fs[i + 1], ...
RECURSIVE ConcatTriples(_, _)
ConcatTriples(fs, i) ==
    IF i > Len(fs) THEN <<>> ELSE fs[i].mapped_triples \o ConcatTriples(fs, i + 1)

\* What a call returning a list of factories returns: the error of the first
\* element that raised, or the list.
ListOutcome(op, rs) ==
    IF \E i \in 1..Len(rs) : rs[i].raised # "none"
    THEN [op |-> op,
          raised |-> rs[Min({i \in 1..Len(rs) : rs[i].raised # "none"})].raised,
          out |-> <<>>]
    ELSE [op |-> op, raised |-> "none", out |-> [i \in 1..Len(rs) |-> rs[i].tf]]

(***************************************************************************)
(* pykeen.triples.splitting.split: the rows are distributed over the parts *)
(* (a partition by row), and every entity and relation ID of the tensor    *)
(* occurs in the first part.  The sizes the ratios ask for are approximate *)
(* and left open; the rows of a part keep their order.                     *)
(***************************************************************************)
SplitAssignments(mapped_triples, k) ==
    {a \in [1..Len(mapped_triples) -> 1..k] :
        LET training == RowsAt(mapped_triples, {i \in 1..Len(mapped_triples) : a[i] = 1})
        IN  /\ Entities(mapped_triples) \subseteq Entities(training)
            /\ Relations(mapped_triples) \subseteq Relations(training)}

splitting_split(mapped_triples, k) ==
    {[j \in 1..k |-> RowsAt(mapped_triples, {i \in 1..Len(mapped_triples) : a[i] = j})] :
        a \in SplitAssignments(mapped_triples, k)}

(***************************************************************************)
(* pykeen.triples.splitting.split_semi_inductive: the entities are split   *)
(* into training entities (group 1) and evaluation entities (groups 2..k); *)
(* the training part holds the triples among training entities, part j the *)
(* triples joining a training entity and an entity of group j.             *)
(***************************************************************************)
splitting_split_semi_inductive(mapped_triples, num_entities, k) ==
    {[j \in 1..k |->
        RowsAt(mapped_triples,
               {i \in 1..Len(mapped_triples) :
                  LET gh == g[ColH(mapped_triples[i])]
                      gt == g[ColT(mapped_triples[i])]
                  IN  IF j = 1 THEN gh = 1 /\ gt = 1
                      ELSE (gh = 1 /\ gt = j) \/ (gh = j /\ gt = 1)})] :
        g \in [0..(num_entities - 1) -> 1..k]}

(***************************************************************************)
(* CoreTriplesFactory.split and split_semi_inductive: one clone of self    *)
(* per part; the first keeps the inverse-triple flag (None), the others    *)
(* get create_inverse_triples=False.  The new objects are numbered from 2. *)
(***************************************************************************)
SplitFirstPartEverywhere(self, parts) ==
    [i \in 1..Len(parts) |->
        clone_and_exchange_triples(self, i + 1, parts[1], {}, TRUE,
                                   IF i = 1 THEN None ELSE Some(FALSE))]

SplitKeepFlag(self, parts) ==
    [i \in 1..Len(parts) |->
        clone_and_exchange_triples(self, i + 1, parts[i], {}, TRUE, None)]

split_factories(self, parts) ==
    [i \in 1..Len(parts) |->
        clone_and_exchange_triples(self, i + 1, parts[i], {}, TRUE,
                                   IF i = 1 THEN None ELSE Some(FALSE))]

(***************************************************************************)
(* Specification SpecSplit: one split of a factory.                        *)
(***************************************************************************)
SplitInit ==
    /\ tf \in Factories(SplitMaxEnt, SplitMaxRel, SplitMaxRows, {})
    /\ call = [op |-> "idle"]
    /\ ret = [op |-> "idle"]
    /\ IdleCtor /\ IdleLabel /\ IdleMap /\ IdleLCWA /\ IdleSLCWA /\ IdleAux

Split ==
    /\ call.op = "idle"
    /\ \E k \in 2..SplitMaxParts :
        \E parts \in splitting_split(tf.mapped_triples, k) :
            /\ call' = [op |-> "split", ratios |-> k, parts |-> parts]
            /\ ret' = ListOutcome("split", split_factories(tf, parts))
    /\ UNCHANGED <<tf, ctorVars, labelVars, mapVars, instanceVars, auxVars>>

SplitSemiInductive ==
    /\ call.op = "idle"
    /\ \E k \in 2..SplitMaxParts :
        \E parts \in splitting_split_semi_inductive(tf.mapped_triples, tf.num_entities, k) :
            /\ call' = [op |-> "split_semi_inductive", ratios |-> k, parts |-> parts]
            /\ ret' = ListOutcome("split_semi_inductive", split_factories(tf, parts))
    /\ UNCHANGED <<tf, ctorVars, labelVars, mapVars, instanceVars, auxVars>>

SplitNext == Split \/ SplitSemiInductive

SpecSplit == SplitInit /\ [][SplitNext]_vars

\* C2: the factories split returns partition the rows of the source (every
\* row, counted with its multiplicity, lies in exactly one part), and every
\* entity and relation ID of any part occurs in the first part.
C2_SplitPartitionsAndCovers ==
    ret.op = "split" =>
        /\ ret.raised = "none"
        /\ Len(ret.out) = call.ratios
        /\ \A t \in Range(tf.mapped_triples) \cup Range(ConcatTriples(ret.out, 1)) :
              Count(ConcatTriples(ret.out, 1), t) = Count(tf.mapped_triples, t)
        /\ \A j \in 1..Len(ret.out) :
              /\ Entities(ret.out[j].mapped_triples) \subseteq Entities(ret.out[1].mapped_triples)
              /\ Relations(ret.out[j].mapped_triples) \subseteq Relations(ret.out[1].mapped_triples)

\* A split of two rows into a training and a non-empty second part.
C2_Witness ==
    /\ ret.op = "split"
    /\ ret.raised = "none"
    /\ Len(tf.mapped_triples) = 2
    /\ Len(ret.out[1].mapped_triples) = 1
    /\ Len(ret.out[2].mapped_triples) = 1

\* C3: of the factories split and split_semi_inductive return, the first has
\* the inverse-triple flag of the source, every later one has the flag off,
\* and all have the source's num_entities and real_num_relations.
C3_SplitFlagsAndCounts ==
    ret.op \in {"split", "split_semi_inductive"} =>
        /\ ret.raised = "none"
        /\ ret.out[1].create_inverse_triples = tf.create_inverse_triples
        /\ \A j \in 2..Len(ret.out) : ret.out[j].create_inverse_triples = FALSE
        /\ \A j \in 1..Len(ret.out) :
              /\ ret.out[j].num_entities = tf.num_entities
              /\ ret.out[j].real_num_relations = tf.real_num_relations

\* A factory creating inverse triples was split into three parts.
C3_Witness ==
    /\ ret.op \in {"split", "split_semi_inductive"}
    /\ ret.raised = "none"
    /\ tf.create_inverse_triples
    /\ Len(ret.out) = 3
    /\ Len(ret.out[2].mapped_triples) > 0
    /\ tf.labeled

(***************************************************************************)
(* CoreTriplesFactory.merge.  The first operand whose num_entities,        *)
(* num_relations or inverse-triple flag differs from self raises a         *)
(* ValueError naming its index; otherwise the tensors are concatenated in  *)
(* the order self, others[0], others[1], ... into a clone of self.  With   *)
(* no operands self is returned.  Indices are 0-based as in the code.      *)
(* The outcome is [raised, index, what, tf].                               *)
(***************************************************************************)
MergeRaise(i, what) == [raised |-> "ValueError", index |-> i - 1, what |-> what, tf |-> NoFactory]

MergeReturn(r) == [raised |-> r.raised, index |-> -1, what |-> "", tf |-> r.tf]

CoreMismatchNoFlagCheck(self, other) ==
    IF other.num_entities # self.num_entities THEN "num_entities"
    ELSE IF other.num_relations # self.num_relations THEN "num_relations"
    ELSE ""

CoreMismatch(self, other) ==
    IF other.num_entities # self.num_entities THEN "num_entities"
    ELSE IF other.num_relations # self.num_relations THEN "num_relations"
    ELSE IF other.create_inverse_triples # self.create_inverse_triples THEN "create_inverse_triples"
    ELSE ""

CatDeduplicated(self, others) ==
    LET all == self.mapped_triples \o ConcatTriples(others, 1)
    IN  RowsAt(all, {i \in 1..Len(all) : \A j \in 1..(i - 1) : all[j] # all[i]})

cat_triples(self, others) == self.mapped_triples \o ConcatTriples(others, 1)

Core_merge(self, others) ==
    IF Len(others) = 0 THEN MergeReturn(Return(self))
    ELSE LET bad == {i \in 1..Len(others) : CoreMismatch(self, others[i]) # ""}
         IN  IF bad # {}
             THEN MergeRaise(Min(bad), CoreMismatch(self, others[Min(bad)]))
             ELSE MergeReturn(clone_and_exchange_triples(self, 2, cat_triples(self, others),
                                                         {}, TRUE, None))

(***************************************************************************)
(* TriplesFactory.merge: the label mappings of every operand must equal    *)
(* those of self (checked for all operands first), then the core merge.    *)
(***************************************************************************)
LabelMismatch(self, other) ==
    IF other.entity_to_id # self.entity_to_id THEN "entity_to_id"
    ELSE IF other.relation_to_id # self.relation_to_id THEN "relation_to_id"
    ELSE ""

TF_merge(self, others) ==
    LET bad == {i \in 1..Len(others) : LabelMismatch(self, others[i]) # ""}
    IN  IF bad # {}
        THEN MergeRaise(Min(bad), LabelMismatch(self, others[Min(bad)]))
        ELSE Core_merge(self, others)

merge(self, others) == IF self.labeled THEN TF_merge(self, others) ELSE Core_merge(self, others)

(***************************************************************************)
(* Specification SpecMerge: one merge of a factory with operands of its    *)
(* own class.  An operand has the configuration of self or differs from it *)
(* in one respect: one more entity, one more relation, the inverse-triple  *)
(* flag (with the same number of real relations, or with the number of     *)
(* real relations that gives the same num_relations), or, for a labeled    *)
(* factory, the entity labels (the first two exchanged).                   *)
(***************************************************************************)
Operand(self, oid, mapped_triples, num_entities, num_relations, inv, swapLabels) ==
    IF self.labeled
    THEN TriplesFactory(oid, mapped_triples,
                        IF swapLabels
                        THEN {<<EntityLabels[1], 1>>, <<EntityLabels[2], 0>>}
                                \cup {<<EntityLabels[i + 1], i>> : i \in 2..(num_entities - 1)}
                        ELSE NaturalLabeling(EntityLabels, num_entities),
                        NaturalLabeling(RelationLabels, num_relations), inv, {}).tf
    ELSE CoreTriplesFactory(oid, mapped_triples, num_entities, num_relations, inv, {}).tf

MergeOperands(self) ==
    {Operand(self, 11, self.mapped_triples, self.num_entities, self.real_num_relations,
             self.create_inverse_triples, FALSE),
     Operand(self, 12, <<>>, self.num_entities, self.real_num_relations,
             self.create_inverse_triples, FALSE),
     Operand(self, 13, <<<<0, 0, 0>>>>, self.num_entities, self.real_num_relations,
             self.create_inverse_triples, FALSE),
     Operand(self, 14, self.mapped_triples, self.num_entities + 1, self.real_num_relations,
             self.create_inverse_triples, FALSE),
     Operand(self, 15, self.mapped_triples, self.num_entities, self.real_num_relations + 1,
             self.create_inverse_triples, FALSE),
     Operand(self, 16, self.mapped_triples, self.num_entities, self.real_num_relations,
             ~self.create_inverse_triples, FALSE)}
    \cup (IF self.create_inverse_triples
          THEN {Operand(self, 17, self.mapped_triples, self.num_entities,
                        self.real_num_relations * 2, FALSE, FALSE)}
          ELSE {})
    \cup (IF self.labeled /\ self.num_entities >= 2
          THEN {Operand(self, 18, self.mapped_triples, self.num_entities,
                        self.real_num_relations, self.create_inverse_triples, TRUE)}
          ELSE {})

MergeInit ==
    /\ tf \in Factories(MergeMaxEnt, 1, MergeMaxRows, {})
    /\ call = [op |-> "idle"]
    /\ ret = [op |-> "idle"]
    /\ IdleCtor /\ IdleLabel /\ IdleMap /\ IdleLCWA /\ IdleSLCWA /\ IdleAux

Merge ==
    /\ call.op = "idle"
    /\ \E others \in SeqsUpTo(MergeOperands(tf), MergeMaxOthers) :
        /\ call' = [op |-> "merge", others |-> others]
        /\ ret' = [op |-> "merge"] @@ merge(tf, others)
    /\ UNCHANGED <<tf, ctorVars, labelVars, mapVars, instanceVars, auxVars>>

MergeNext == Merge

SpecMerge == MergeInit /\ [][MergeNext]_vars

\* C4: when some operand of merge differs from self in num_entities,
\* num_relations or the inverse-triple flag, merge raises a ValueError and
\* returns no factory; the index it names is that of an operand that does
\* not match self (for a core factory the first operand differing in one of
\* the three, for a labeled factory possibly an earlier operand whose label
\* mappings differ), and the reason named is a real difference.
C4_Differs(other) ==
    \/ other.num_entities # tf.num_entities
    \/ other.num_relations # tf.num_relations
    \/ other.create_inverse_triples # tf.create_inverse_triples

C4_MergeMismatchRaises ==
    (ret.op = "merge" /\ \E i \in 1..Len(call.others) : C4_Differs(call.others[i])) =>
        /\ ret.raised = "ValueError"
        /\ ret.tf = NoFactory
        /\ ret.index + 1 \in 1..Len(call.others)
        /\ LET other == call.others[ret.index + 1]
           IN  /\ C4_Differs(other) \/ (tf.labeled /\ other.entity_to_id # tf.entity_to_id)
               /\ ~tf.labeled =>
                     \A j \in 1..ret.index : ~C4_Differs(call.others[j])
               /\ ret.what = "num_entities" => other.num_entities # tf.num_entities
               /\ ret.what = "num_relations" => other.num_relations # tf.num_relations
               /\ ret.what = "create_inverse_triples" =>
                     other.create_inverse_triples # tf.create_inverse_triples
               /\ ret.what = "entity_to_id" => other.entity_to_id # tf.entity_to_id
               /\ ret.what = "relation_to_id" => other.relation_to_id # tf.relation_to_id

\* The second operand differs from self only in the inverse-triple flag
\* (same num_entities and num_relations) and the error names index 1.
C4_Witness ==
    /\ ret.op = "merge"
    /\ ret.raised = "ValueError"
    /\ Len(call.others) = 2
    /\ ret.index = 1
    /\ ret.what = "create_inverse_triples"
    /\ call.others[2].num_relations = tf.num_relations
    /\ call.others[2].num_entities = tf.num_entities

\* C5 as claimed: merging two factories built from the same labeling never
\* raises and gives a factory with the sum of the operands' triple counts.
C5_SameLabelingMergeNeverRaises ==
    (/\ ret.op = "merge"
     /\ tf.labeled
     /\ Len(call.others) = 1
     /\ call.others[1].entity_to_id = tf.entity_to_id
     /\ call.others[1].relation_to_id = tf.relation_to_id) =>
        /\ ret.raised = "none"
        /\ Len(ret.tf.mapped_triples)
              = Len(tf.mapped_triples) + Len(call.others[1].mapped_triples)

\* C5 as amended: merging two factories built from the same labeling that
\* also have the same inverse-triple flag never raises, and the result holds
\* every row of both, with its multiplicity (no deduplication).
C5_SameLabelingSameFlagMerge ==
    (/\ ret.op = "merge"
     /\ tf.labeled
     /\ Len(call.others) = 1
     /\ call.others[1].entity_to_id = tf.entity_to_id
     /\ call.others[1].relation_to_id = tf.relation_to_id
     /\ call.others[1].create_inverse_triples = tf.create_inverse_triples) =>
        /\ ret.raised = "none"
        /\ Len(ret.tf.mapped_triples)
              = Len(tf.mapped_triples) + Len(call.others[1].mapped_triples)
        /\ \A t \in Range(ret.tf.mapped_triples) \cup Range(tf.mapped_triples) :
              Count(ret.tf.mapped_triples, t)
                  = Count(tf.mapped_triples, t) + Count(call.others[1].mapped_triples, t)

\* Two labeled factories with the same row were merged: the row is kept twice.
C5_Witness ==
    /\ ret.op = "merge"
    /\ tf.labeled
    /\ Len(call.others) = 1
    /\ ret.raised = "none"
    /\ Len(tf.mapped_triples) >= 1
    /\ call.others[1].mapped_triples = tf.mapped_triples
    /\ Len(ret.tf.mapped_triples) = 2 * Len(tf.mapped_triples)

(***************************************************************************)
(* Specification SpecCtor: one construction from arbitrary ID tensors.     *)
(***************************************************************************)
CtorIds == -1..CtorMaxId

CtorTriples == CtorIds \X CtorIds \X CtorIds

\* The range check is a conjunction over all entries of the tensor, so the
\* tensors are enumerated up to the order of their rows.
CtorTensors == TensorsUpTo(CtorTriples, CtorMaxRows)

CtorInit ==
    /\ ctorArgs \in [mapped_triples : CtorTensors,
                     num_entities : 1..CtorMaxId,
                     num_relations : 1..CtorMaxId,
                     create_inverse_triples : BOOLEAN]
    /\ ctorOut = Raise("pending")
    /\ IdleFactory /\ IdleLabel /\ IdleMap /\ IdleLCWA /\ IdleSLCWA /\ IdleAux

Construct ==
    /\ ctorOut.raised = "pending"
    /\ ctorOut' = CoreTriplesFactory(1, ctorArgs.mapped_triples, ctorArgs.num_entities,
                                     ctorArgs.num_relations, ctorArgs.create_inverse_triples,
                                     {})
    /\ UNCHANGED <<ctorArgs, factoryVars, labelVars, mapVars, instanceVars, auxVars>>

CtorNext == Construct

SpecCtor == CtorInit /\ [][CtorNext]_vars

\* C1: constructing a CoreTriplesFactory raises and yields no factory exactly
\* when the tensor holds a negative ID, a head or tail >= num_entities or a
\* relation >= the declared num_relations; otherwise the factory is built
\* with the given triples and counts.
C1_HasBadId(a) ==
    \E i \in 1..Len(a.mapped_triples) :
        LET row == a.mapped_triples[i]
        IN  \/ \E c \in 1..3 : row[c] < 0
            \/ row[1] >= a.num_entities
            \/ row[3] >= a.num_entities
            \/ row[2] >= a.num_relations

C1_InvalidIdsRejected ==
    ctorOut.raised # "pending" =>
        IF C1_HasBadId(ctorArgs)
        THEN ctorOut.raised = "ValueError" /\ ctorOut.tf = NoFactory
        ELSE /\ ctorOut.raised = "none"
             /\ ctorOut.tf.mapped_triples = ctorArgs.mapped_triples
             /\ ctorOut.tf.num_entities = ctorArgs.num_entities
             /\ ctorOut.tf.real_num_relations = ctorArgs.num_relations

\* A two-row tensor whose only fault is one entity ID >= num_entities was rejected.
C1_Witness ==
    /\ ctorOut.raised = "ValueError"
    /\ Len(ctorArgs.mapped_triples) = 2
    /\ \A i \in 1..2 : \A c \in 1..3 : ctorArgs.mapped_triples[i][c] >= 0
    /\ \A i \in 1..2 : ctorArgs.mapped_triples[i][2] < ctorArgs.num_relations
    /\ ctorArgs.mapped_triples[1][1] < ctorArgs.num_entities
    /\ ctorArgs.mapped_triples[1][3] < ctorArgs.num_entities
    /\ ctorArgs.mapped_triples[2][3] >= ctorArgs.num_entities

(***************************************************************************)
(* Label-based triples.  A label is a string; sorted() orders entity       *)
(* labels alphabetically and relation labels by the key                    *)
(* (label without the "_inverse" suffix, label ends with the suffix).      *)
(***************************************************************************)
LabEntities == <<"a", "b">>
LabRelations == <<"r", "r_inverse", "s", "s_inverse">>

\* x.endswith(INVERSE_SUFFIX), INVERSE_SUFFIX being "_inverse"
EndsWithInverseSuffix(x) == x \in {"r_inverse", "s_inverse"}

IndexOf(order, x) == CHOOSE i \in 1..Len(order) : order[i] = x

\* {label: i for i, label in enumerate(sorted(labels))}
Enumerate(order, labels) ==
    {<<l, Cardinality({m \in labels : IndexOf(order, m) < IndexOf(order, l)})>> : l \in labels}

create_entity_mapping(triples) ==
    Enumerate(LabEntities, {ColH(triples[i]) : i \in 1..Len(triples)}
                           \cup {ColT(triples[i]) : i \in 1..Len(triples)})

create_relation_mapping(relations) == Enumerate(LabRelations, relations)

\* pykeen.utils.compact_mapping: translation = {old: new for new, old in
\* enumerate(sorted(mapping.values()))}, applied to every value.
compact_mapping(mapping) ==
    {<<p[1], Cardinality({q \in mapping : q[2] <= p[2]}) - 1>> : p \in mapping}

\* np.unique(ar, axis=0): the distinct rows in lexicographic order
RECURSIVE np_unique(_)
np_unique(rows) ==
    IF rows = {} THEN <<>>
    ELSE LET least == CHOOSE x \in rows : \A y \in rows \ {x} : LexLess(x, y)
         IN  <<least>> \o np_unique(rows \ {least})

\* dict.get(key, -1)
GetOrMinusOne(mapping, key) == IF key \in Keys(mapping) THEN Get(mapping, key) ELSE -1

IdsOfRow(row, entity_to_id, relation_to_id) ==
    <<GetOrMinusOne(entity_to_id, ColH(row)),
      GetOrMinusOne(relation_to_id, ColR(row)),
      GetOrMinusOne(entity_to_id, ColT(row))>>

Mappable(ids) == ColH(ids) >= 0 /\ ColR(ids) >= 0 /\ ColT(ids) >= 0

\* The mapping without the final np.unique.
MapWithoutUnique(triples, entity_to_id, relation_to_id) ==
    LET ids == [i \in 1..Len(triples) |-> IdsOfRow(triples[i], entity_to_id, relation_to_id)]
    IN  RowsAt(ids, {i \in 1..Len(ids) : Mappable(ids[i])})

map_triples_elements_to_ids(triples, entity_to_id, relation_to_id) ==
    IF Len(triples) = 0 THEN <<>>
    ELSE LET ids == [i \in 1..Len(triples) |-> IdsOfRow(triples[i], entity_to_id, relation_to_id)]
         IN  np_unique({ids[i] : i \in {j \in 1..Len(ids) : Mappable(ids[j])}})

(***************************************************************************)
(* TriplesFactory.from_labeled_triples, label_triples and map_triples.     *)
(***************************************************************************)
\* triples[mask]: the rows whose relation does not end with the suffix
FilterInverseRelations(triples) ==
    RowsAt(triples, {i \in 1..Len(triples) : ~EndsWithInverseSuffix(ColR(triples[i]))})

from_labeled_triples(oid, triples, create_inverse_triples, entity_to_id, relation_to_id, compact_id, filter_out_candidate_inverse_relations) ==
    LET kept == IF filter_out_candidate_inverse_relations
                THEN FilterInverseRelations(triples) ELSE triples
        e0 == IF IsNone(entity_to_id) THEN create_entity_mapping(kept) ELSE Val(entity_to_id)
        e1 == IF compact_id THEN compact_mapping(e0) ELSE e0
        r0 == IF IsNone(relation_to_id)
              THEN create_relation_mapping({ColR(kept[i]) : i \in 1..Len(kept)})
              ELSE Val(relation_to_id)
        r1 == IF compact_id THEN compact_mapping(r0) ELSE r0
    IN  TriplesFactory(oid, map_triples_elements_to_ids(kept, e1, r1), e1, r1,
                       create_inverse_triples, {})

\* Labeling.label: id_to_label.get(id, unknown_label)
Labeling_label(label_to_id, id, unknown_label) ==
    IF id \in Values(label_to_id) THEN Get(invert_mapping(label_to_id), id) ELSE unknown_label

\* The columns zipped with the wrong labelings: relations labeled as entities.
LabelTriplesEntityLabelingOnly(self, triples) ==
    [i \in 1..Len(triples) |->
        <<Labeling_label(self.entity_to_id, ColH(triples[i]), "[UNKNOWN]"),
          Labeling_label(self.entity_to_id, ColR(triples[i]), "[UNKNOWN]"),
          Labeling_label(self.entity_to_id, ColT(triples[i]), "[UNKNOWN]")>>]

label_triples(self, triples) ==
    IF Len(triples) = 0 THEN <<>> ELSE
    [i \in 1..Len(triples) |->
        <<Labeling_label(self.entity_to_id, ColH(triples[i]), "[UNKNOWN]"),
          Labeling_label(self.relation_to_id, ColR(triples[i]), "[UNKNOWN]"),
          Labeling_label(self.entity_to_id, ColT(triples[i]), "[UNKNOWN]")>>]

map_triples(self, triples) ==
    map_triples_elements_to_ids(triples, self.entity_to_id, self.relation_to_id)

(***************************************************************************)
(* Specification SpecLabel: a factory is built from label-based triples,   *)
(* its own ID triples are labeled, and the labels are mapped back.         *)
(***************************************************************************)
LabTriples == Range(LabEntities) \X {LabRelations[1], LabRelations[2]} \X Range(LabEntities)

\* entity_to_id of the caller: absent, with a gap in the IDs, covering only
\* one label, or with two labels for one ID
LabEntityMappings ==
    { None,
      Some({<<"a", 0>>, <<"b", LabMaxId>>}),
      Some({<<"b", 0>>}),
      Some({<<"a", 0>>, <<"b", 0>>}) }

LabRelationMappings ==
    { None,
      Some({<<"r", LabMaxId - 1>>}),
      Some({<<"r_inverse", 0>>, <<"r", LabMaxId>>}) }

LabelInit ==
    /\ labArgs \in [triples : SeqsUpTo(LabTriples, LabMaxRows),
                    create_inverse_triples : BOOLEAN,
                    entity_to_id : LabEntityMappings,
                    relation_to_id : LabRelationMappings,
                    compact_id : BOOLEAN,
                    filter_out_candidate_inverse_relations : BOOLEAN]
    /\ labTf = Raise("pending")
    /\ labOut = [done |-> FALSE]
    /\ labBack = [done |-> FALSE]
    /\ IdleCtor /\ IdleFactory /\ IdleMap /\ IdleLCWA /\ IdleSLCWA /\ IdleAux

FromLabeledTriples ==
    /\ labTf.raised = "pending"
    /\ labTf' = from_labeled_triples(2, labArgs.triples, labArgs.create_inverse_triples,
                                     labArgs.entity_to_id, labArgs.relation_to_id,
                                     labArgs.compact_id,
                                     labArgs.filter_out_candidate_inverse_relations)
    /\ UNCHANGED <<labArgs, labOut, labBack, ctorVars, factoryVars, mapVars, instanceVars, auxVars>>

LabelTriples ==
    /\ labTf.raised = "none"
    /\ ~labOut.done
    /\ labOut' = [done |-> TRUE, triples |-> label_triples(labTf.tf, labTf.tf.mapped_triples)]
    /\ UNCHANGED <<labArgs, labTf, labBack, ctorVars, factoryVars, mapVars, instanceVars, auxVars>>

MapTriples ==
    /\ labOut.done
    /\ ~labBack.done
    /\ labBack' = [done |-> TRUE, triples |-> map_triples(labTf.tf, labOut.triples)]
    /\ UNCHANGED <<labArgs, labTf, labOut, ctorVars, factoryVars, mapVars, instanceVars, auxVars>>

LabelNext == FromLabeledTriples \/ LabelTriples \/ MapTriples

SpecLabel == LabelInit /\ [][LabelNext]_vars

(***************************************************************************)
(* C6: for any TriplesFactory built by from_labeled_triples, mapping the   *)
(* labels of its own mapped_triples back to IDs gives the same set of     *)
(* rows: label_triples and map_triples are mutually inverse on them.       *)
(***************************************************************************)
C6_RoundTrip ==
    labBack.done =>
        Range(labBack.triples) = Range(labTf.tf.mapped_triples)

\* a factory with two distinct rows, built over a caller-supplied entity
\* mapping with a gap and not compacted, has been labeled and mapped back
C6_Witness ==
    /\ labBack.done
    /\ ~IsNone(labArgs.entity_to_id)
    /\ ~labArgs.compact_id
    /\ labTf.tf.num_entities > Cardinality(labTf.tf.entity_to_id)
    /\ Len(labTf.tf.mapped_triples) = 2
    /\ Len(labBack.triples) = 2

(***************************************************************************)
(* Specification SpecMap: _map_triples_elements_to_ids applied to          *)
(* arbitrary label-based triples and caller-supplied mappings.             *)
(***************************************************************************)
MapEntities == {"a", "b"}
MapRelations == {"r", "s"}
MapTriplesIn == MapEntities \X MapRelations \X MapEntities

\* every mapping of some of the labels to IDs in 0..MapMaxId
MappingsOf(labels) ==
    UNION {{{<<l, f[l]>> : l \in known} : f \in [known -> 0..MapMaxId]} : known \in SUBSET labels}

MapInit ==
    /\ mapArgs \in [triples : SeqsUpTo(MapTriplesIn, MapMaxRows),
                    entity_to_id : MappingsOf(MapEntities),
                    relation_to_id : MappingsOf(MapRelations)]
    /\ mapOut = [done |-> FALSE]
    /\ IdleCtor /\ IdleFactory /\ IdleLabel /\ IdleLCWA /\ IdleSLCWA /\ IdleAux

MapTriplesElementsToIds ==
    /\ ~mapOut.done
    /\ mapOut' = [done |-> TRUE,
                  triples |-> map_triples_elements_to_ids(mapArgs.triples, mapArgs.entity_to_id,
                                                          mapArgs.relation_to_id)]
    /\ UNCHANGED <<mapArgs, ctorVars, factoryVars, labelVars, instanceVars, auxVars>>

MapNext == MapTriplesElementsToIds

SpecMap == MapInit /\ [][MapNext]_vars

(***************************************************************************)
(* C7: the label-to-ID mapping returns exactly the ID rows of the input    *)
(* rows whose head, relation and tail labels are all keys of the mappings: *)
(* rows with an unknown label are dropped, every fully known row is kept,  *)
(* and the result has no duplicate row and no negative ID.                 *)
(***************************************************************************)
C7_FullyKnown(row) ==
    /\ ColH(row) \in Keys(mapArgs.entity_to_id)
    /\ ColR(row) \in Keys(mapArgs.relation_to_id)
    /\ ColT(row) \in Keys(mapArgs.entity_to_id)

C7_MapKeepsExactlyKnownRows ==
    mapOut.done =>
        LET out == mapOut.triples
            known == {row \in Range(mapArgs.triples) : C7_FullyKnown(row)}
        IN  /\ Range(out) = {<<Get(mapArgs.entity_to_id, ColH(row)),
                               Get(mapArgs.relation_to_id, ColR(row)),
                               Get(mapArgs.entity_to_id, ColT(row))>> : row \in known}
            /\ Cardinality(Range(out)) = Len(out)
            /\ \A i \in 1..Len(out) : ColH(out[i]) >= 0 /\ ColR(out[i]) >= 0 /\ ColT(out[i]) >= 0

\* two equal, fully known rows and no other: one row is returned; and a row
\* with an unknown label next to a known one: only the known one is returned
C7_Witness ==
    /\ mapOut.done
    /\ Len(mapArgs.triples) = 2
    /\ \/ /\ mapArgs.triples[1] = mapArgs.triples[2]
          /\ C7_FullyKnown(mapArgs.triples[1])
          /\ Len(mapOut.triples) = 1
       \/ /\ C7_FullyKnown(mapArgs.triples[1])
          /\ ~C7_FullyKnown(mapArgs.triples[2])
          /\ Len(mapOut.triples) = 1

(***************************************************************************)
(* Inverse augmentation.  pykeen.inverse.relation_inverter renumbers a     *)
(* relation r as 2r and its inverse as 2r + 1; the inverse triple has head *)
(* and tail exchanged (flip(1)).                                           *)
(***************************************************************************)
\* A variant that keeps the relation IDs and gives relation r the inverse
\* r + 1.
RelationInverterUndoubled(batch, invert) ==
    [i \in 1..Len(batch) |->
        <<ColH(batch[i]), ColR(batch[i]) + (IF invert THEN 1 ELSE 0), ColT(batch[i])>>]

relation_inverter_map(batch, invert) ==
    [i \in 1..Len(batch) |->
        <<ColH(batch[i]), 2 * ColR(batch[i]) + (IF invert THEN 1 ELSE 0), ColT(batch[i])>>]

Flip(batch) == [i \in 1..Len(batch) |-> <<batch[i][3], batch[i][2], batch[i][1]>>]

add_inverse_triples_if_necessary(self, mapped_triples) ==
    IF ~self.create_inverse_triples THEN mapped_triples
    ELSE relation_inverter_map(mapped_triples, FALSE)
            \o Flip(relation_inverter_map(mapped_triples, TRUE))

(***************************************************************************)
(* LCWAInstances.from_triples.  A column is 0 (head), 1 (relation) or 2    *)
(* (tail); the target hint None stands for the tail.  The sparse matrix is *)
(* built from one entry 1.0 per triple at (index of its pair, target ID);  *)
(* the conversion to CSR adds up the entries at the same position.         *)
(***************************************************************************)
get_target_column(target) == IF IsNone(target) THEN 2 ELSE Val(target)

\* sorted(set(range(3)).difference({target})), as positions of a row
OtherColumns(target) == SelectSeq(<<0, 1, 2>>, LAMBDA c : c # target)

PairOf(row, target) ==
    LET other_columns == OtherColumns(target)
    IN  <<row[other_columns[1] + 1], row[other_columns[2] + 1]>>

\* coo_matrix((ones, (rows, columns)), shape).tocsr(): entry (i, j) is the sum
\* of the data given for (i, j)
CooToCsr(rows, columns, shape) ==
    [i \in 1..shape[1] |->
        [j \in 1..shape[2] |->
            Cardinality({k \in 1..Len(rows) : rows[k] = i - 1 /\ columns[k] = j - 1})]]

from_triples(mapped_triples, num_entities, num_relations, target_hint) ==
    LET target == get_target_column(target_hint)
        unique_pairs == np_unique({PairOf(mapped_triples[k], target) : k \in 1..Len(mapped_triples)})
        pair_idx_to_triple_idx ==
            [k \in 1..Len(mapped_triples) |->
                IndexOf(unique_pairs, PairOf(mapped_triples[k], target)) - 1]
        tails == [k \in 1..Len(mapped_triples) |-> mapped_triples[k][target + 1]]
        target_size == IF target = 1 THEN num_relations ELSE num_entities
        shape == <<Len(unique_pairs), target_size>>
    IN  [pairs |-> unique_pairs,
         compressed |-> CooToCsr(pair_idx_to_triple_idx, tails, shape),
         shape |-> shape,
         target |-> target]

LCWA_from_triples_factory(self, target_hint) ==
    from_triples(add_inverse_triples_if_necessary(self, self.mapped_triples),
                 self.num_entities, self.num_relations, target_hint)

(***************************************************************************)
(* Specification SpecLCWA: a factory with distinct triples, possibly       *)
(* merged with another factory of the same settings, is turned into LCWA   *)
(* instances for a target column.                                          *)
(***************************************************************************)
HasDistinctRows(mapped_triples) == Cardinality(Range(mapped_triples)) = Len(mapped_triples)

TargetHints == {None, Some(0), Some(1), Some(2)}

\* factories the receiver can be merged with: its own triples, or its first
LcwaOperands(self) ==
    {Operand(self, 11, self.mapped_triples, self.num_entities, self.real_num_relations,
             self.create_inverse_triples, FALSE),
     Operand(self, 12, SubSeq(self.mapped_triples, 1, Min({1, Len(self.mapped_triples)})), self.num_entities,
             self.real_num_relations, self.create_inverse_triples, FALSE)}

\* the factory the instances are created from
LcwaSubject == IF ret.op = "merge" THEN ret.tf ELSE tf

LcwaInit ==
    /\ tf \in {f \in Factories(LcwaMaxEnt, 1, LcwaMaxRows, {}) : HasDistinctRows(f.mapped_triples)}
    /\ call = [op |-> "idle"]
    /\ ret = [op |-> "idle"]
    /\ lcwa = [done |-> FALSE]
    /\ IdleCtor /\ IdleLabel /\ IdleMap /\ IdleSLCWA /\ IdleAux

LcwaMerge ==
    /\ call.op = "idle"
    /\ ~lcwa.done
    /\ \E other \in LcwaOperands(tf) :
        /\ call' = [op |-> "merge", others |-> <<other>>]
        /\ ret' = [op |-> "merge"] @@ merge(tf, <<other>>)
    /\ UNCHANGED <<tf, lcwa, slcwa, ctorVars, labelVars, mapVars, auxVars>>

CreateLCWAInstances ==
    /\ ~lcwa.done
    /\ \E target \in TargetHints :
        lcwa' = [done |-> TRUE, triples |-> add_inverse_triples_if_necessary(LcwaSubject, LcwaSubject.mapped_triples)]
                    @@ LCWA_from_triples_factory(LcwaSubject, target)
    /\ UNCHANGED <<factoryVars, slcwa, ctorVars, labelVars, mapVars, auxVars>>

LcwaNext == LcwaMerge \/ CreateLCWAInstances

SpecLCWA == LcwaInit /\ [][LcwaNext]_vars

\* the triple formed by a pair and an ID of the target column
LcwaTriple(pair, j, target) ==
    IF target = 0 THEN <<j, pair[1], pair[2]>>
    ELSE IF target = 1 THEN <<pair[1], j, pair[2]>>
    ELSE <<pair[1], pair[2], j>>

LcwaTargetSize == IF lcwa.target = 1 THEN LcwaSubject.num_relations ELSE LcwaSubject.num_entities

(***************************************************************************)
(* C8: for every target column and every triple tensor given to            *)
(* LCWAInstances.from_triples, merged or inverse-augmented ones included,  *)
(* pairs are the unique combinations of the two other columns, compressed  *)
(* has shape (len(pairs), size of the target ID space), and entry (i, j)   *)
(* is 1 if the triple formed by pair i and target j is among the triples   *)
(* and 0 otherwise.                                                        *)
(***************************************************************************)
C8_CompressedIsMultiHot ==
    lcwa.done =>
        /\ Range(lcwa.pairs) = {PairOf(lcwa.triples[k], lcwa.target) : k \in 1..Len(lcwa.triples)}
        /\ Cardinality(Range(lcwa.pairs)) = Len(lcwa.pairs)
        /\ lcwa.shape = <<Len(lcwa.pairs), LcwaTargetSize>>
        /\ \A i \in 1..Len(lcwa.pairs) : \A j \in 0..(LcwaTargetSize - 1) :
            lcwa.compressed[i][j + 1] =
                IF LcwaTriple(lcwa.pairs[i], j, lcwa.target) \in Range(lcwa.triples) THEN 1 ELSE 0

\* C8, what the code computes: pairs and shape are as claimed, and entry
\* (i, j) is the number of times the triple occurs among the triples
C8_CompressedCountsOccurrences ==
    lcwa.done =>
        /\ Range(lcwa.pairs) = {PairOf(lcwa.triples[k], lcwa.target) : k \in 1..Len(lcwa.triples)}
        /\ Cardinality(Range(lcwa.pairs)) = Len(lcwa.pairs)
        /\ lcwa.shape = <<Len(lcwa.pairs), LcwaTargetSize>>
        /\ \A i \in 1..Len(lcwa.pairs) : \A j \in 0..(LcwaTargetSize - 1) :
            lcwa.compressed[i][j + 1] =
                Count(lcwa.triples, LcwaTriple(lcwa.pairs[i], j, lcwa.target))

\* instances for the tail of the triples (0,0,1), (0,0,2), (1,0,2) over three
\* entities: two pairs, and the row of pair (0,0) is [0,1,1]
C8_Example ==
    /\ lcwa.done
    /\ lcwa.triples = <<<<0, 0, 1>>, <<0, 0, 2>>, <<1, 0, 2>>>>
    /\ lcwa.target = 2
    /\ lcwa.pairs = <<<<0, 0>>, <<1, 0>>>>
    /\ lcwa.compressed[1] = <<0, 1, 1>>

\* instances of a factory merged with a copy of its triples: an entry is 2
C8_Witness ==
    /\ lcwa.done
    /\ ret.op = "merge"
    /\ \E i \in 1..Len(lcwa.pairs) : \E j \in 1..lcwa.shape[2] : lcwa.compressed[i][j] = 2

(***************************************************************************)
(* BatchedSLCWAInstances.  __len__ is computed from the number of triples; *)
(* iter_triple_ids batches a random permutation of the positions of        *)
(* split_workload(n), the share of the process that iterates:              *)
(* pykeen.utils.split_workload gives range(n) to a process without worker  *)
(* info and the slice range(ceil(n/W*w), ceil(n/W*(w+1))) to worker w of   *)
(* W.  torch's RandomSampler yields a permutation of                       *)
(* range(len(data_source)), BatchSampler cuts it into lists of batch_size  *)
(* and yields a shorter last list unless drop_last.                        *)
(***************************************************************************)
SLCWA_len(n, batch_size, drop_last) ==
    LET num_batches == n \div batch_size
        remainder == n % batch_size
    IN  IF remainder # 0 /\ ~drop_last THEN num_batches + 1 ELSE num_batches

CeilDiv(a, b) == (a + b - 1) \div b

\* the range, as <<start, stop>>
split_workload(n, worker_info) ==
    IF IsNone(worker_info) THEN <<0, n>>
    ELSE LET worker_id == Val(worker_info)[1]
             num_workers == Val(worker_info)[2]
         IN  <<CeilDiv(n * worker_id, num_workers), CeilDiv(n * (worker_id + 1), num_workers)>>

RangeLen(range) == IF range[2] > range[1] THEN range[2] - range[1] ELSE 0

\* every order RandomSampler can yield the positions of the data source in
RandomSampler(data_source) ==
    LET m == RangeLen(data_source)
    IN  {p \in [1..m -> 0..(m - 1)] : \A i, j \in 1..m : p[i] = p[j] => i = j}

\* the lists BatchSampler yields when fewer than batch_size indices remain
FinalBatch(rest, drop_last) == IF Len(rest) > 0 /\ ~drop_last THEN <<rest>> ELSE <<>>

\* get_worker_info() in the process that iterates: None in the main process
\* (num_workers = 0), else the id of the worker and the number of workers
WorkerInfo(worker, num_workers) == IF num_workers = 0 THEN None ELSE Some(<<worker, num_workers>>)

(***************************************************************************)
(* Specification SpecBatch: one epoch over a BatchedSLCWAInstances object, *)
(* loaded by the main process or by each of the workers in turn.           *)
(***************************************************************************)
BatchInit ==
    /\ slcwa \in [phase : {"ready"},
                  n : 0..BatchMaxTriples,
                  batch_size : 1..BatchMaxSize,
                  drop_last : BOOLEAN,
                  num_workers : 0..BatchMaxWorkers,
                  worker : {0},
                  rest : {<<>>},
                  batches : {<<>>}]
    /\ lcwa = [done |-> FALSE]
    /\ IdleCtor /\ IdleFactory /\ IdleLabel /\ IdleMap /\ IdleAux

\* a process calls iter_triple_ids: the sampler draws its permutation
IterTripleIds ==
    /\ slcwa.phase = "ready"
    /\ \E p \in RandomSampler(split_workload(slcwa.n, WorkerInfo(slcwa.worker, slcwa.num_workers))) :
        slcwa' = [slcwa EXCEPT !.phase = "iterating", !.rest = p]
    /\ UNCHANGED <<lcwa, ctorVars, factoryVars, labelVars, mapVars, auxVars>>

\* BatchSampler yields the next batch_size indices
NextBatch ==
    /\ slcwa.phase = "iterating"
    /\ Len(slcwa.rest) >= slcwa.batch_size
    /\ slcwa' = [slcwa EXCEPT
                    !.batches = Append(@, SubSeq(slcwa.rest, 1, slcwa.batch_size)),
                    !.rest = SubSeq(slcwa.rest, slcwa.batch_size + 1, Len(slcwa.rest))]
    /\ UNCHANGED <<lcwa, ctorVars, factoryVars, labelVars, mapVars, auxVars>>

\* the sampler is exhausted: the process ends its iteration, and the next
\* worker, if there is one, takes its turn
StopIteration ==
    /\ slcwa.phase = "iterating"
    /\ Len(slcwa.rest) < slcwa.batch_size
    /\ slcwa' = [slcwa EXCEPT
                    !.batches = @ \o FinalBatch(slcwa.rest, slcwa.drop_last),
                    !.rest = <<>>,
                    !.phase = IF slcwa.worker + 1 < slcwa.num_workers THEN "ready" ELSE "exhausted",
                    !.worker = IF slcwa.worker + 1 < slcwa.num_workers THEN @ + 1 ELSE @]
    /\ UNCHANGED <<lcwa, ctorVars, factoryVars, labelVars, mapVars, auxVars>>

BatchNext == IterTripleIds \/ NextBatch \/ StopIteration

SpecBatch == BatchInit /\ [][BatchNext]_vars

C9_BatchIsValid(batch) ==
    /\ Len(batch) = slcwa.batch_size
    /\ \A i, j \in 1..Len(batch) : batch[i] = batch[j] => i = j
    /\ \A i \in 1..Len(batch) : batch[i] \in 0..(slcwa.n - 1)

\* the sum over the iterating processes of the full batches in their shares
RECURSIVE C9_FullBatches(_)
C9_FullBatches(worker) ==
    IF slcwa.num_workers = 0
    THEN slcwa.n \div slcwa.batch_size
    ELSE IF worker >= slcwa.num_workers THEN 0
    ELSE RangeLen(split_workload(slcwa.n, Some(<<worker, slcwa.num_workers>>))) \div slcwa.batch_size
            + C9_FullBatches(worker + 1)

(***************************************************************************)
(* C9 as stated: BatchedSLCWAInstances with batch_size=b and               *)
(* drop_last=True over n triples yields exactly n // b batches per epoch   *)
(* (equal to __len__), each of exactly b pairwise distinct indices in      *)
(* 0..n-1.                                                                 *)
(***************************************************************************)
C9_BatchesPerEpoch ==
    (slcwa.phase = "exhausted" /\ slcwa.drop_last) =>
        /\ Len(slcwa.batches) = slcwa.n \div slcwa.batch_size
        /\ Len(slcwa.batches) = SLCWA_len(slcwa.n, slcwa.batch_size, slcwa.drop_last)
        /\ \A k \in 1..Len(slcwa.batches) : C9_BatchIsValid(slcwa.batches[k])

(***************************************************************************)
(* C9, what the code computes: with drop_last=True every iterating process *)
(* yields m // b batches, m being the size of its share split_workload(n); *)
(* without DataLoader workers the share is all n triples and the epoch has *)
(* n // b = __len__ batches.  Each batch has exactly b pairwise distinct   *)
(* indices in 0..n-1.                                                      *)
(***************************************************************************)
C9_BatchesPerShare ==
    (slcwa.phase = "exhausted" /\ slcwa.drop_last) =>
        /\ Len(slcwa.batches) = C9_FullBatches(0)
        /\ slcwa.num_workers = 0 =>
            /\ Len(slcwa.batches) = slcwa.n \div slcwa.batch_size
            /\ Len(slcwa.batches) = SLCWA_len(slcwa.n, slcwa.batch_size, slcwa.drop_last)
        /\ \A k \in 1..Len(slcwa.batches) : C9_BatchIsValid(slcwa.batches[k])

\* an epoch loaded by two workers over two triples in batches of two has
\* ended: each worker had one index, and no batch was yielded
C9_Witness ==
    /\ slcwa.phase = "exhausted"
    /\ slcwa.drop_last
    /\ slcwa.num_workers = 2
    /\ slcwa.n = 2
    /\ slcwa.batch_size = 2
    /\ SLCWA_len(slcwa.n, slcwa.batch_size, slcwa.drop_last) = 1
    /\ Len(slcwa.batches) = 0

(***************************************************************************)
(* restrict_triples and new_with_restriction.  A selection is None or a    *)
(* collection of IDs or of labels; a CoreTriplesFactory raises TypeError   *)
(* on a label, a TriplesFactory looks it up and raises KeyError if it is   *)
(* unknown.                                                                *)
(***************************************************************************)
Ids(items) == [labels |-> FALSE, items |-> items]
Labels(items) == [labels |-> TRUE, items |-> items]

\* entities_to_ids / relations_to_ids: [raised, ids]
ToIds(self, label_to_id, selection) ==
    IF ~selection.labels THEN [raised |-> "none", ids |-> selection.items]
    ELSE IF selection.items = {} THEN [raised |-> "none", ids |-> {}]
    ELSE IF ~self.labeled THEN [raised |-> "TypeError", ids |-> {}]
    ELSE IF ~(selection.items \subseteq Keys(label_to_id)) THEN [raised |-> "KeyError", ids |-> {}]
    ELSE [raised |-> "none", ids |-> {Get(label_to_id, l) : l \in selection.items}]

\* A row is selected as soon as one of the columns is.
TripleMaskAnyColumn(ids, triples, columns, invert) ==
    [i \in 1..Len(triples) |-> \E c \in columns : (triples[i][c + 1] \in ids) # invert]

\* torch.isin(triples[:, columns], ids, invert=invert), all columns required
get_triple_mask(ids, triples, columns, invert) ==
    [i \in 1..Len(triples) |-> \A c \in columns : (triples[i][c + 1] \in ids) # invert]

restrict_triples(mapped_triples, entities, relations, invert_entity_selection, invert_relation_selection) ==
    LET entity_mask == IF IsNone(entities) THEN [i \in 1..Len(mapped_triples) |-> TRUE]
                       ELSE get_triple_mask(Val(entities), mapped_triples, {0, 2},
                                            invert_entity_selection)
        relation_mask == IF IsNone(relations) THEN [i \in 1..Len(mapped_triples) |-> TRUE]
                         ELSE get_triple_mask(Val(relations), mapped_triples, {1},
                                              invert_relation_selection)
    IN  IF IsNone(entities) /\ IsNone(relations) THEN mapped_triples
        ELSE RowsAt(mapped_triples,
                    {i \in 1..Len(mapped_triples) : entity_mask[i] /\ relation_mask[i]})

RestrictionMetadata(entities, relations) ==
    (IF IsNone(entities) THEN {} ELSE {<<"entity_restriction", Val(entities)>>})
        \cup (IF IsNone(relations) THEN {} ELSE {<<"relation_restriction", Val(relations)>>})

\* The restricted triples are always put into a new factory.
NewWithRestrictionAlwaysClones(self, oid, entities, relations, invert_entity_selection, invert_relation_selection) ==
    clone_and_exchange_triples(self, oid,
        restrict_triples(self.mapped_triples, entities, relations,
                         invert_entity_selection, invert_relation_selection),
        RestrictionMetadata(entities, relations), TRUE, None)

\* CoreTriplesFactory.new_with_restriction once the selections are IDs
RestrictOrSelf(self, oid, entities, relations, invert_entity_selection, invert_relation_selection) ==
    LET mapped_triples == restrict_triples(self.mapped_triples, entities, relations,
                                           invert_entity_selection, invert_relation_selection)
    IN  IF Len(mapped_triples) = Len(self.mapped_triples)
        THEN Return(self)
        ELSE clone_and_exchange_triples(self, oid, mapped_triples,
                                        RestrictionMetadata(entities, relations), TRUE, None)

Core_new_with_restriction(self, oid, entities, relations, invert_entity_selection, invert_relation_selection) ==
    LET e == IF IsNone(entities) THEN [raised |-> "none", ids |-> {}]
             ELSE ToIds(self, self.entity_to_id, Val(entities))
        r == IF IsNone(relations) THEN [raised |-> "none", ids |-> {}]
             ELSE ToIds(self, self.relation_to_id, Val(relations))
    IN  IF e.raised # "none" THEN Raise(e.raised)
        ELSE IF r.raised # "none" THEN Raise(r.raised)
        ELSE RestrictOrSelf(self, oid,
                            IF IsNone(entities) THEN None ELSE Some(e.ids),
                            IF IsNone(relations) THEN None ELSE Some(r.ids),
                            invert_entity_selection, invert_relation_selection)

TF_new_with_restriction(self, oid, entities, relations, invert_entity_selection, invert_relation_selection) ==
    IF IsNone(entities) /\ IsNone(relations) THEN Return(self)
    ELSE Core_new_with_restriction(self, oid, entities, relations,
                                   invert_entity_selection, invert_relation_selection)

new_with_restriction(self, oid, entities, relations, invert_entity_selection, invert_relation_selection) ==
    IF self.labeled
    THEN TF_new_with_restriction(self, oid, entities, relations,
                                 invert_entity_selection, invert_relation_selection)
    ELSE Core_new_with_restriction(self, oid, entities, relations,
                                   invert_entity_selection, invert_relation_selection)

(***************************************************************************)
(* Specification SpecRestrict: one call of new_with_restriction on a       *)
(* factory, with selections of IDs or of labels.                           *)
(***************************************************************************)
EntitySelections(self) ==
    { None,
      Some(Ids(Entities(self.mapped_triples))),
      Some(Ids(0..(self.num_entities - 1))),
      Some(Ids({0})),
      Some(Labels({EntityLabels[i] : i \in 1..self.num_entities})) }

RelationSelections(self) ==
    { None,
      Some(Ids(Relations(self.mapped_triples))),
      Some(Ids({0})),
      Some(Labels({RelationLabels[self.num_relations + 1]})) }

RestrictInit ==
    /\ tf \in Factories(RestrictMaxEnt, RestrictMaxRel, RestrictMaxRows, {})
    /\ call = [op |-> "idle"]
    /\ ret = [op |-> "idle"]
    /\ IdleCtor /\ IdleLabel /\ IdleMap /\ IdleLCWA /\ IdleSLCWA /\ IdleAux

NewWithRestriction ==
    /\ call.op = "idle"
    /\ \E entities \in EntitySelections(tf), relations \in RelationSelections(tf),
          invert_entity_selection \in BOOLEAN, invert_relation_selection \in BOOLEAN :
        /\ call' = [op |-> "new_with_restriction",
                    entities |-> entities, relations |-> relations,
                    invert_entity_selection |-> invert_entity_selection,
                    invert_relation_selection |-> invert_relation_selection]
        /\ ret' = [op |-> "new_with_restriction"]
                    @@ new_with_restriction(tf, 2, entities, relations,
                                            invert_entity_selection, invert_relation_selection)
    /\ UNCHANGED <<tf, ctorVars, labelVars, mapVars, instanceVars, auxVars>>

RestrictNext == NewWithRestriction

SpecRestrict == RestrictInit /\ [][RestrictNext]_vars

\* the selection is absent, or not inverted and holds (the ID or the label
\* of) every member of occurring
C10_Covers(selection, invert, occurring, label_to_id) ==
    \/ IsNone(selection)
    \/ /\ ~invert
       /\ IF Val(selection).labels
          THEN \A id \in occurring :
                \E l \in Val(selection).items : <<l, id>> \in label_to_id
          ELSE occurring \subseteq Val(selection).items

(***************************************************************************)
(* C10: new_with_restriction with a selection that covers all entities and *)
(* relations occurring in the triples of the factory returns the very same *)
(* factory object, and the object returned is a different one only if at   *)
(* least one triple was removed.                                           *)
(***************************************************************************)
C10_RestrictionIdentity ==
    (ret.op = "new_with_restriction" /\ ret.raised = "none") =>
        /\ ( /\ C10_Covers(call.entities, call.invert_entity_selection,
                           Entities(tf.mapped_triples), tf.entity_to_id)
             /\ C10_Covers(call.relations, call.invert_relation_selection,
                           Relations(tf.mapped_triples), tf.relation_to_id) )
           => (ret.tf.oid = tf.oid /\ ret.tf = tf)
        /\ ret.tf.oid # tf.oid =>
            /\ Len(ret.tf.mapped_triples) < Len(tf.mapped_triples)
            /\ Range(ret.tf.mapped_triples) \subseteq Range(tf.mapped_triples)

\* a factory with two triples restricted to exactly the entities and the
\* relations that occur in them: the factory itself is returned
C10_Witness ==
    /\ ret.op = "new_with_restriction"
    /\ ret.raised = "none"
    /\ Len(tf.mapped_triples) = 2
    /\ call.entities = Some(Ids(Entities(tf.mapped_triples)))
    /\ call.relations = Some(Ids(Relations(tf.mapped_triples)))
    /\ ~call.invert_entity_selection
    /\ ~call.invert_relation_selection
    /\ ret.tf.oid = tf.oid

\* the IDs a selection of new_with_restriction stands for
C11_SelectedIds(selection, label_to_id) ==
    IF Val(selection).labels
    THEN {p[2] : p \in {q \in label_to_id : q[1] \in Val(selection).items}}
    ELSE Val(selection).items

\* the row is kept by the entity and the relation selection of the call
C11_Keeps(row) ==
    /\ \/ IsNone(call.entities)
       \/ LET ids == C11_SelectedIds(call.entities, tf.entity_to_id)
          IN  IF call.invert_entity_selection
              THEN ColH(row) \notin ids /\ ColT(row) \notin ids
              ELSE ColH(row) \in ids /\ ColT(row) \in ids
    /\ \/ IsNone(call.relations)
       \/ LET ids == C11_SelectedIds(call.relations, tf.relation_to_id)
          IN  IF call.invert_relation_selection
              THEN ColR(row) \notin ids
              ELSE ColR(row) \in ids

(***************************************************************************)
(* C11: new_with_restriction keeps exactly the triples of the source whose *)
(* head and tail are both in the entity selection (both outside it when    *)
(* inverted) and whose relation is in the relation selection (outside it   *)
(* when inverted), each as often as the source has it; num_entities and    *)
(* num_relations are those of the source.                                  *)
(***************************************************************************)
C11_RestrictionKeepsSelected ==
    (ret.op = "new_with_restriction" /\ ret.raised = "none") =>
        /\ \A row \in Range(tf.mapped_triples) \cup Range(ret.tf.mapped_triples) :
            Count(ret.tf.mapped_triples, row) =
                IF C11_Keeps(row) THEN Count(tf.mapped_triples, row) ELSE 0
        /\ ret.tf.num_entities = tf.num_entities
        /\ ret.tf.num_relations = tf.num_relations
        /\ ret.tf.real_num_relations = tf.real_num_relations

\* of two different triples, the restriction to entity 0 kept one
C11_Witness ==
    /\ ret.op = "new_with_restriction"
    /\ ret.raised = "none"
    /\ call.entities = Some(Ids({0}))
    /\ ~call.invert_entity_selection
    /\ Len(tf.mapped_triples) = 2
    /\ Len(ret.tf.mapped_triples) = 1
    /\ ret.tf.oid # tf.oid

(***************************************************************************)
(* Specification SpecClone: one call of clone_and_exchange_triples on a    *)
(* factory that carries metadata.                                          *)
(***************************************************************************)
MetadataKeys == {"path", "name"}

\* every dict over some of the keys
MetadataDicts ==
    UNION {{{<<k, f[k]>> : k \in keys} : f \in [keys -> 0..CloneMaxValue]} : keys \in SUBSET MetadataKeys}

\* extra_metadata or {}
OrEmpty(extra_metadata) == IF IsNone(extra_metadata) THEN {} ELSE Val(extra_metadata)

CloneInit ==
    /\ tf \in UNION {Factories(1, 1, CloneMaxRows, metadata) : metadata \in MetadataDicts}
    /\ call = [op |-> "idle"]
    /\ ret = [op |-> "idle"]
    /\ IdleCtor /\ IdleLabel /\ IdleMap /\ IdleLCWA /\ IdleSLCWA /\ IdleAux

CloneAndExchangeTriples ==
    /\ call.op = "idle"
    /\ \E mapped_triples \in TensorsUpTo(Triples(tf.num_entities, tf.real_num_relations), CloneMaxRows),
          extra_metadata \in {None} \cup {Some(d) : d \in MetadataDicts},
          keep_metadata \in BOOLEAN,
          create_inverse_triples \in {None, Some(TRUE), Some(FALSE)} :
        /\ call' = [op |-> "clone_and_exchange_triples",
                    mapped_triples |-> mapped_triples,
                    extra_metadata |-> extra_metadata,
                    keep_metadata |-> keep_metadata,
                    create_inverse_triples |-> create_inverse_triples]
        /\ ret' = [op |-> "clone_and_exchange_triples"]
                    @@ clone_and_exchange_triples(tf, 2, mapped_triples, OrEmpty(extra_metadata),
                                                  keep_metadata, create_inverse_triples)
    /\ UNCHANGED <<tf, ctorVars, labelVars, mapVars, instanceVars, auxVars>>

CloneNext == CloneAndExchangeTriples

SpecClone == CloneInit /\ [][CloneNext]_vars

\* the extra metadata of the call, as a dict
C12_Extra == IF IsNone(call.extra_metadata) THEN {} ELSE Val(call.extra_metadata)

(***************************************************************************)
(* C12: clone_and_exchange_triples with keep_metadata=True returns a       *)
(* factory whose metadata is the union of the metadata of the source and   *)
(* extra_metadata, and for a key of both the value of extra_metadata wins. *)
(***************************************************************************)
C12_ExtraMetadataWins ==
    (ret.op = "clone_and_exchange_triples" /\ ret.raised = "none" /\ call.keep_metadata) =>
        /\ Keys(ret.tf.metadata) = Keys(tf.metadata) \cup Keys(C12_Extra)
        /\ \A k \in Keys(ret.tf.metadata) :
            Get(ret.tf.metadata, k) =
                IF k \in Keys(C12_Extra) THEN Get(C12_Extra, k) ELSE Get(tf.metadata, k)

\* C12, what the code computes: the keys are the union, and for a key of
\* both the value of the source wins
C12_SourceMetadataWins ==
    (ret.op = "clone_and_exchange_triples" /\ ret.raised = "none" /\ call.keep_metadata) =>
        /\ Keys(ret.tf.metadata) = Keys(tf.metadata) \cup Keys(C12_Extra)
        /\ \A k \in Keys(ret.tf.metadata) :
            Get(ret.tf.metadata, k) =
                IF k \in Keys(tf.metadata) THEN Get(tf.metadata, k) ELSE Get(C12_Extra, k)

\* a key of both dicts with different values: the clone has the value of the
\* source
C12_Witness ==
    /\ ret.op = "clone_and_exchange_triples"
    /\ ret.raised = "none"
    /\ call.keep_metadata
    /\ \E k \in Keys(tf.metadata) \cap Keys(C12_Extra) :
        /\ Get(tf.metadata, k) # Get(C12_Extra, k)
        /\ Get(ret.tf.metadata, k) = Get(tf.metadata, k)

(***************************************************************************)
(* Condenser: the renumbering of the IDs present in a tensor to 0..k-1.    *)
(* A one-dimensional LongTensor is a sequence of integers; the field       *)
(* condensation is None for the identity condenser and Some(y) otherwise,   *)
(* with y[id + 1] the new ID of the old ID id, or -1 if id is dropped.     *)
(***************************************************************************)
CondMaxId == 3
CondMaxLen == 3
CondMaxInputLen == 2

\* int(x.max()) + 1
get_num_ids(x) == Max(Range(x)) + 1

\* torch.arange(k)
arange(k) == [i \in 1..k |-> i - 1]

\* Tensor.unique(): the distinct values in ascending order
RECURSIVE SortedValues(_)
SortedValues(S) ==
    IF S = {} THEN <<>>
    ELSE <<Min(S)>> \o SortedValues(S \ {Min(S)})

unique(x) == SortedValues(Range(x))

\* torch.full((k,), fill_value)
full(k, fill_value) == [i \in 1..k |-> fill_value]

\* A scatter that writes the old ID itself instead of its rank.
ScatterOldId(y, index, src) ==
    [j \in 1..Len(y) |->
        IF \E i \in 1..Len(index) : index[i] = j - 1
        THEN src[j]
        ELSE y[j]]

\* y.scatter_(dim=0, index, src): y[index[i]] = src[i] for every position i of index
scatter_(y, index, src) ==
    [j \in 1..Len(y) |->
        IF \E i \in 1..Len(index) : index[i] = j - 1
        THEN src[CHOOSE i \in 1..Len(index) : index[i] = j - 1]
        ELSE y[j]]

\* Condenser(condensation=...): the dataclass with its __post_init__ validation
\* (dimension and dtype are fixed by the representation).
Condenser(condensation) ==
    IF IsNone(condensation) THEN [raised |-> "none", condensation |-> None]
    ELSE IF Min(Range(Val(condensation))) < -1 \/ Max(Range(Val(condensation))) >= Len(Val(condensation))
         THEN [raised |-> "ValueError", condensation |-> None]
         ELSE [raised |-> "none", condensation |-> condensation]

Condenser_empty == Condenser(None)

\* A make that builds the renumbering even when the IDs are already 0..k-1.
CondenserMakeAlways(x, enable) ==
    IF ~enable \/ Len(x) = 0 THEN Condenser_empty
    ELSE LET k == get_num_ids(x)
         IN  Condenser(Some(scatter_(full(k, -1), unique(x), arange(k))))

Condenser_make(x, enable) ==
    IF ~enable \/ Len(x) = 0 THEN Condenser_empty
    ELSE LET k == get_num_ids(x)
             unique_entities == unique(x)
             old_ids_t == arange(k)
         IN  IF unique_entities = old_ids_t THEN Condenser_empty
             ELSE Condenser(Some(scatter_(full(k, -1), unique_entities, old_ids_t)))

\* A call that returns the looked-up values without checking for dropped IDs.
CondenserCallUnchecked(condensation, x) ==
    IF IsNone(condensation) THEN [raised |-> "none", value |-> x]
    ELSE IF \E i \in 1..Len(x) : x[i] >= Len(Val(condensation))
         THEN [raised |-> "IndexError", value |-> <<>>]
         ELSE [raised |-> "none", value |-> [i \in 1..Len(x) |-> Val(condensation)[x[i] + 1]]]

\* Condenser.__call__(x); indexing past the end of the condensation raises
Condenser_call(condensation, x) ==
    IF IsNone(condensation) THEN [raised |-> "none", value |-> x]
    ELSE IF \E i \in 1..Len(x) : x[i] >= Len(Val(condensation))
         THEN [raised |-> "IndexError", value |-> <<>>]
         ELSE LET y == [i \in 1..Len(x) |-> Val(condensation)[x[i] + 1]]
              IN  IF \E i \in 1..Len(y) : y[i] < 0
                  THEN [raised |-> "ValueError", value |-> <<>>]
                  ELSE [raised |-> "none", value |-> y]

Condenser_apply_to_num(condensation, num) ==
    IF IsNone(condensation) THEN num ELSE get_num_ids(Val(condensation))

Condenser_bool(condensation) == ~IsNone(condensation)

CondenserInit ==
    /\ IdleCtor /\ IdleFactory /\ IdleLabel /\ IdleMap /\ IdleLCWA /\ IdleSLCWA
    /\ sub = [phase |-> "idle"] /\ es = [phase |-> "idle"]
    /\ \E x \in SeqsUpTo(0..CondMaxId, CondMaxLen), enable \in BOOLEAN :
           cond = [phase |-> "start", x |-> x, enable |-> enable]

CondenserMake ==
    /\ cond.phase = "start"
    /\ cond' = [phase |-> "made", x |-> cond.x, enable |-> cond.enable,
                made |-> Condenser_make(cond.x, cond.enable)]
    /\ UNCHANGED <<ctorVars, factoryVars, labelVars, mapVars, instanceVars, sub, es>>

CondenserCall ==
    /\ cond.phase = "made"
    /\ cond.made.raised = "none"
    /\ \E input \in SeqsUpTo(0..(CondMaxId + 1), CondMaxInputLen) :
           cond' = [phase |-> "called", x |-> cond.x, enable |-> cond.enable,
                    made |-> cond.made, input |-> input,
                    out |-> Condenser_call(cond.made.condensation, input)]
    /\ UNCHANGED <<ctorVars, factoryVars, labelVars, mapVars, instanceVars, sub, es>>

CondenserNext == CondenserMake \/ CondenserCall

SpecCondenser == CondenserInit /\ [][CondenserNext]_vars

\* The IDs of cond.x are exactly 0..k-1 for some k.
CondContiguous == Range(cond.x) = 0..(Cardinality(Range(cond.x)) - 1)

CondPresent == Range(cond.x)

\* C13: for a non-empty tensor whose present IDs are not exactly 0..k-1,
\* Condenser.make returns a renumbering that sends the i-th smallest present
\* ID to i (so the present IDs map injectively and in order onto 0..k-1, k
\* the number of distinct present IDs, which is what apply_to_num reports)
\* and sends every absent ID below the maximum to -1.
C13_MakeRenumbers ==
    (cond.phase \in {"made", "called"} /\ cond.enable /\ Len(cond.x) > 0 /\ ~CondContiguous)
        => /\ cond.made.raised = "none"
           /\ Condenser_bool(cond.made.condensation)
           /\ LET y == Val(cond.made.condensation)
              IN  /\ Len(y) = Max(CondPresent) + 1
                  /\ \A id \in CondPresent :
                         y[id + 1] = Cardinality({j \in CondPresent : j < id})
                  /\ {y[id + 1] : id \in CondPresent} = 0..(Cardinality(CondPresent) - 1)
                  /\ \A id \in (0..Max(CondPresent)) \ CondPresent : y[id + 1] = -1
                  /\ Condenser_apply_to_num(cond.made.condensation, Max(CondPresent) + 1)
                         = Cardinality(CondPresent)

C13_Witness ==
    /\ cond.phase = "made"
    /\ cond.enable
    /\ cond.x = <<3, 1, 3>>
    /\ cond.made.condensation = Some(<<-1, 0, -1, 1>>)

\* C14: Condenser.make on a tensor whose present IDs are already exactly
\* 0..k-1, on an empty tensor, or with enable=False yields the identity
\* condenser: bool(condenser) is False and calling it returns its input.
C14_IdentityCondenser ==
    (cond.phase \in {"made", "called"} /\ (~cond.enable \/ Len(cond.x) = 0 \/ CondContiguous))
        => /\ cond.made.raised = "none"
           /\ ~Condenser_bool(cond.made.condensation)
           /\ cond.phase = "called" => cond.out = [raised |-> "none", value |-> cond.input]

C14_Witness ==
    /\ cond.phase = "called"
    /\ cond.enable
    /\ cond.x = <<1, 0, 1>>
    /\ ~Condenser_bool(cond.made.condensation)
    /\ cond.input = <<4, 2>>
    /\ cond.out.value = <<4, 2>>

\* The IDs the non-identity condenser of cond retains.
CondRetained == {id \in 0..(Len(Val(cond.made.condensation)) - 1) : Val(cond.made.condensation)[id + 1] >= 0}

\* C15: calling a non-identity condenser on a tensor that contains an ID it
\* does not retain (one mapped to -1, or one beyond the range it was built
\* from) raises and returns no renumbered tensor.
C15_UnretainedIdRaises ==
    (cond.phase = "called" /\ Condenser_bool(cond.made.condensation)
        /\ ~(Range(cond.input) \subseteq CondRetained))
        => cond.out.raised \in {"ValueError", "IndexError"} /\ cond.out.value = <<>>

C15_Witness ==
    /\ cond.phase = "called"
    /\ cond.x = <<0, 2>>
    /\ cond.input = <<2, 1>>
    /\ cond.out.raised = "ValueError"

(***************************************************************************)
(* TriplesFactory.__init__ with the optional explicit counts: a count that *)
(* differs from the max_id of the labeling raises ValueError.              *)
(***************************************************************************)
TriplesFactory_init(oid, mapped_triples, entity_to_id, relation_to_id, num_entities, num_relations, create_inverse_triples, metadata) ==
    IF LabelingRaises(entity_to_id) THEN Raise("ValueError")
    ELSE IF ~IsNone(num_entities) /\ Val(num_entities) # max_id(entity_to_id) THEN Raise("ValueError")
    ELSE IF LabelingRaises(relation_to_id) THEN Raise("ValueError")
    ELSE IF ~IsNone(num_relations) /\ Val(num_relations) # max_id(relation_to_id) THEN Raise("ValueError")
    ELSE TriplesFactory(oid, mapped_triples, entity_to_id, relation_to_id,
                        create_inverse_triples, metadata)

(***************************************************************************)
(* CoreTriplesFactory.create: counts that are not given are inferred from  *)
(* the triples with get_num_ids, which has no value for an empty tensor.   *)
(***************************************************************************)
HeadsAndTails(mapped_triples) ==
    [i \in 1..(2 * Len(mapped_triples)) |->
        IF i % 2 = 1 THEN ColH(mapped_triples[(i + 1) \div 2]) ELSE ColT(mapped_triples[i \div 2])]

RelationColumn(mapped_triples) == [i \in 1..Len(mapped_triples) |-> ColR(mapped_triples[i])]

create(oid, mapped_triples, num_entities, num_relations, create_inverse_triples, metadata) ==
    IF (IsNone(num_entities) \/ IsNone(num_relations)) /\ Len(mapped_triples) = 0
    THEN Raise("RuntimeError")
    ELSE CoreTriplesFactory(oid, mapped_triples,
             IF IsNone(num_entities) THEN get_num_ids(HeadsAndTails(mapped_triples))
             ELSE Val(num_entities),
             IF IsNone(num_relations) THEN get_num_ids(RelationColumn(mapped_triples))
             ELSE Val(num_relations),
             create_inverse_triples, metadata)

(***************************************************************************)
(* with_labels: the IDs of the triples must be values of the new mappings. *)
(***************************************************************************)
with_labels(self, oid, entity_to_id, relation_to_id) ==
    IF ~(Entities(self.mapped_triples) \subseteq Values(entity_to_id)) THEN Raise("ValueError")
    ELSE IF ~(Relations(self.mapped_triples) \subseteq Values(relation_to_id)) THEN Raise("ValueError")
    ELSE TriplesFactory(oid, self.mapped_triples, entity_to_id, relation_to_id,
                        self.create_inverse_triples, self.metadata)

to_core_triples_factory(self, oid) ==
    CoreTriplesFactory(oid, self.mapped_triples, self.num_entities, self.num_relations,
                       self.create_inverse_triples, self.metadata)

(***************************************************************************)
(* TripleCondenser: a condenser for the entity columns and one for the     *)
(* relation column.                                                        *)
(***************************************************************************)
TripleCondenser_make(mapped_triples, entities, relations) ==
    [entities |-> Condenser_make(HeadsAndTails(mapped_triples), entities).condensation,
     relations |-> Condenser_make(RelationColumn(mapped_triples), relations).condensation]

TripleCondenser_bool(condenser) ==
    Condenser_bool(condenser.entities) \/ Condenser_bool(condenser.relations)

\* TripleCondenser.__call__: [raised, value]
TripleCondenser_call(condenser, mapped_triples) ==
    IF ~TripleCondenser_bool(condenser) THEN [raised |-> "none", value |-> mapped_triples]
    ELSE LET ht == Condenser_call(condenser.entities, HeadsAndTails(mapped_triples))
             r == Condenser_call(condenser.relations, RelationColumn(mapped_triples))
         IN  IF ht.raised # "none" THEN [raised |-> ht.raised, value |-> <<>>]
             ELSE IF r.raised # "none" THEN [raised |-> r.raised, value |-> <<>>]
             ELSE [raised |-> "none",
                   value |-> [i \in 1..Len(mapped_triples) |->
                                <<ht.value[2 * i - 1], r.value[i], ht.value[2 * i]>>]]

\* Condenser.apply_to_map: [raised, value]; an old ID without a label raises KeyError
Condenser_apply_to_map(condensation, label_to_id) ==
    IF IsNone(condensation) THEN [raised |-> "none", value |-> label_to_id]
    ELSE LET y == Val(condensation)
             old_indices == {id \in 0..(Len(y) - 1) : y[id + 1] >= 0}
         IN  IF ~(old_indices \subseteq Values(label_to_id))
             THEN [raised |-> "KeyError", value |-> {}]
             ELSE [raised |-> "none",
                   value |-> {<<Get(invert_mapping(label_to_id), old),
                                Cardinality({j \in old_indices : j < old})>> : old \in old_indices}]

make_condenser(self, entities, relations) ==
    TripleCondenser_make(self.mapped_triples, entities, relations)

Core_apply_condenser(self, oid, condenser) ==
    IF ~TripleCondenser_bool(condenser) THEN Return(self)
    ELSE LET mapped_triples == TripleCondenser_call(condenser, self.mapped_triples)
         IN  IF mapped_triples.raised # "none" THEN Raise(mapped_triples.raised)
             ELSE CoreTriplesFactory(oid, mapped_triples.value,
                      Condenser_apply_to_num(condenser.entities, self.num_entities),
                      Condenser_apply_to_num(condenser.relations, self.num_relations),
                      self.create_inverse_triples, self.metadata)

TF_apply_condenser(self, oid, condenser) ==
    IF ~TripleCondenser_bool(condenser) THEN Return(self)
    ELSE LET mapped_triples == TripleCondenser_call(condenser, self.mapped_triples)
             entity_to_id == Condenser_apply_to_map(condenser.entities, self.entity_to_id)
             relation_to_id == Condenser_apply_to_map(condenser.relations, self.relation_to_id)
         IN  IF mapped_triples.raised # "none" THEN Raise(mapped_triples.raised)
             ELSE IF entity_to_id.raised # "none" THEN Raise(entity_to_id.raised)
             ELSE IF relation_to_id.raised # "none" THEN Raise(relation_to_id.raised)
             ELSE TriplesFactory_init(oid, mapped_triples.value,
                      entity_to_id.value, relation_to_id.value,
                      Some(Condenser_apply_to_num(condenser.entities, self.num_entities)),
                      Some(Condenser_apply_to_num(condenser.relations, self.num_relations)),
                      self.create_inverse_triples, self.metadata)

apply_condenser(self, oid, condenser) ==
    IF self.labeled THEN TF_apply_condenser(self, oid, condenser)
    ELSE Core_apply_condenser(self, oid, condenser)

condense(self, oid, entities, relations) ==
    apply_condenser(self, oid, make_condenser(self, entities, relations))

(***************************************************************************)
(* Specification SpecOps: sequences of factory operations.  tf is the      *)
(* factory the next operation is called on (self); an operation records    *)
(* its call and what it returned, and a returned factory can become the    *)
(* receiver of the next operation.  tf' is self as the operation leaves    *)
(* it.                                                                     *)
(***************************************************************************)
OpsMaxEnt == 2
OpsMaxRel == 1
OpsMaxRows == 2
OpsMaxRelations == 4
OpsMaxArgRows == 1

OpsTensors == TensorsUpTo(Triples(OpsMaxEnt, OpsMaxRel), OpsMaxArgRows)

\* The tensors made of some of the rows of mapped_triples.
SubTensors(mapped_triples) ==
    {RowsAt(mapped_triples, I) : I \in SUBSET (1..Len(mapped_triples))}

\* TriplesFactory.new_with_restriction, lines 1568-1569: the labelings of self
\* are assigned to the factory the core method returned.
AssignLabelings(target, source) ==
    [target EXCEPT !.entity_to_id = source.entity_to_id,
                   !.relation_to_id = source.relation_to_id]

\* A restriction that exchanges the triples of self in place.
SelfRestrictedInPlace(self, entities, relations, result) ==
    IF result.raised = "none" THEN [self EXCEPT !.mapped_triples = result.tf.mapped_triples]
    ELSE self

\* self after new_with_restriction: the assignment reaches self when the
\* core method returned self.
SelfAfterRestriction(self, entities, relations, result) ==
    IF self.labeled /\ ~(IsNone(entities) /\ IsNone(relations))
          /\ result.raised = "none" /\ result.tf.oid = self.oid
    THEN AssignLabelings(self, self)
    ELSE self

OpsReady == call.op \in {"idle", "adopt"}

OpsInit ==
    /\ tf \in FactoriesOver(OpsMaxEnt, OpsMaxRel, OpsMaxArgRows, {})
    /\ call = [op |-> "idle"]
    /\ ret = [op |-> "idle"]
    /\ IdleCtor /\ IdleLabel /\ IdleMap /\ IdleLCWA /\ IdleSLCWA /\ IdleAux

OpsCreate ==
    /\ call.op = "idle"
    /\ \E mapped_triples \in OpsTensors,
          num_entities \in {None, Some(OpsMaxEnt)}, num_relations \in {None, Some(OpsMaxRel)},
          create_inverse_triples \in BOOLEAN :
        /\ call' = [op |-> "create", mapped_triples |-> mapped_triples,
                    num_entities |-> num_entities, num_relations |-> num_relations,
                    create_inverse_triples |-> create_inverse_triples]
        /\ ret' = [op |-> "create"]
                    @@ create(2, mapped_triples, num_entities, num_relations,
                              create_inverse_triples, {})
    /\ tf' = tf
    /\ UNCHANGED <<ctorVars, labelVars, mapVars, instanceVars, auxVars>>

OpsClone ==
    /\ OpsReady
    /\ \E mapped_triples \in SubTensors(tf.mapped_triples),
          create_inverse_triples \in {None, Some(TRUE), Some(FALSE)} :
        /\ call' = [op |-> "clone_and_exchange_triples", mapped_triples |-> mapped_triples,
                    create_inverse_triples |-> create_inverse_triples]
        /\ ret' = [op |-> "clone_and_exchange_triples"]
                    @@ clone_and_exchange_triples(tf, 2, mapped_triples, {}, TRUE,
                                                  create_inverse_triples)
    /\ tf' = tf
    /\ UNCHANGED <<ctorVars, labelVars, mapVars, instanceVars, auxVars>>

OpsSplit ==
    /\ OpsReady
    /\ \E parts \in splitting_split(tf.mapped_triples, 2) :
        /\ call' = [op |-> "split", parts |-> parts]
        /\ ret' = ListOutcome("split", split_factories(tf, parts))
    /\ tf' = tf
    /\ UNCHANGED <<ctorVars, labelVars, mapVars, instanceVars, auxVars>>

OpsMerge ==
    /\ OpsReady
    /\ 2 * Len(tf.mapped_triples) <= OpsMaxRows
    /\ \E flip \in BOOLEAN :
        LET other == [tf EXCEPT !.oid = 11,
                                !.create_inverse_triples = (tf.create_inverse_triples # flip)]
        IN  /\ call' = [op |-> "merge", others |-> <<other>>]
            /\ ret' = [op |-> "merge"] @@ merge(tf, <<other>>)
    /\ tf' = tf
    /\ UNCHANGED <<ctorVars, labelVars, mapVars, instanceVars, auxVars>>

OpsRestrict ==
    /\ OpsReady
    /\ \E entities \in {None, Some(Ids({0})), Some(Labels({"a"}))},
          relations \in {None, Some(Ids({0}))},
          invert_entity_selection \in BOOLEAN :
        LET result == new_with_restriction(tf, 2, entities, relations,
                                           invert_entity_selection, FALSE)
        IN  /\ call' = [op |-> "new_with_restriction",
                        entities |-> entities, relations |-> relations,
                        invert_entity_selection |-> invert_entity_selection]
            /\ ret' = [op |-> "new_with_restriction"] @@ result
            /\ tf' = SelfAfterRestriction(tf, entities, relations, result)
    /\ UNCHANGED <<ctorVars, labelVars, mapVars, instanceVars, auxVars>>

OpsCondense ==
    /\ OpsReady
    /\ \E entities \in BOOLEAN, relations \in BOOLEAN :
        /\ call' = [op |-> "condense", entities |-> entities, relations |-> relations]
        /\ ret' = [op |-> "condense"] @@ condense(tf, 2, entities, relations)
    /\ tf' = tf
    /\ UNCHANGED <<ctorVars, labelVars, mapVars, instanceVars, auxVars>>

OpsApplyCondenser ==
    /\ OpsReady
    /\ \E mapped_triples \in SubTensors(tf.mapped_triples) :
        LET condenser == TripleCondenser_make(mapped_triples, TRUE, FALSE)
        IN  /\ call' = [op |-> "apply_condenser", condenser |-> condenser]
            /\ ret' = [op |-> "apply_condenser"] @@ apply_condenser(tf, 2, condenser)
    /\ tf' = tf
    /\ UNCHANGED <<ctorVars, labelVars, mapVars, instanceVars, auxVars>>

OpsWithLabels ==
    /\ OpsReady
    /\ \E ne \in {1, tf.num_entities}, nr \in {1, tf.real_num_relations} :
        LET entity_to_id == NaturalLabeling(EntityLabels, ne)
            relation_to_id == NaturalLabeling(RelationLabels, nr)
        IN  /\ call' = [op |-> "with_labels", entity_to_id |-> entity_to_id,
                        relation_to_id |-> relation_to_id]
            /\ ret' = [op |-> "with_labels"] @@ with_labels(tf, 2, entity_to_id, relation_to_id)
    /\ tf' = tf
    /\ UNCHANGED <<ctorVars, labelVars, mapVars, instanceVars, auxVars>>

OpsToCore ==
    /\ OpsReady
    /\ tf.labeled
    /\ call' = [op |-> "to_core_triples_factory"]
    /\ ret' = [op |-> "to_core_triples_factory"] @@ to_core_triples_factory(tf, 2)
    /\ tf' = tf
    /\ UNCHANGED <<ctorVars, labelVars, mapVars, instanceVars, auxVars>>

\* The factories the last operation returned.
OpsReturned ==
    IF ret.op \in {"idle", "adopt"} \/ ret.raised # "none" THEN {}
    ELSE IF ret.op = "split" THEN Range(ret.out)
    ELSE {ret.tf}

\* The caller goes on with a factory the operation returned.
OpsAdopt ==
    /\ ~OpsReady
    /\ \E f \in OpsReturned :
        /\ f.num_relations <= OpsMaxRelations
        /\ tf' = [f EXCEPT !.oid = 1]
    /\ call' = [op |-> "adopt"]
    /\ ret' = [op |-> "adopt"]
    /\ UNCHANGED <<ctorVars, labelVars, mapVars, instanceVars, auxVars>>

OpsNext ==
    \/ OpsCreate \/ OpsClone \/ OpsSplit \/ OpsMerge \/ OpsRestrict
    \/ OpsCondense \/ OpsApplyCondenser \/ OpsWithLabels \/ OpsToCore \/ OpsAdopt

SpecOps == OpsInit /\ [][OpsNext]_vars

\* C16: every factory reached by a sequence of construction, create,
\* clone_and_exchange_triples, split, merge, new_with_restriction,
\* condense/apply_condenser, with_labels and to_core_triples_factory has
\* num_relations == real_num_relations * (2 if create_inverse_triples else 1).
C16_RelationCount(f) ==
    f.num_relations = f.real_num_relations * (IF f.create_inverse_triples THEN 2 ELSE 1)

C16_RelationCountInvariant ==
    \A f \in {tf} \cup OpsReturned : C16_RelationCount(f)

C16_Witness ==
    /\ tf.create_inverse_triples
    /\ tf.real_num_relations = 2
    /\ tf.num_relations = 4
    /\ ret.op = "condense" /\ ret.raised = "none"
    /\ ret.tf.oid # tf.oid
    /\ ret.tf.create_inverse_triples
    /\ ret.tf.num_relations = 2 * ret.tf.real_num_relations

\* C18: split, merge, new_with_restriction, condense/apply_condenser,
\* clone_and_exchange_triples and with_labels leave the triples, the counts,
\* the inverse flag, the metadata and the label maps of the factory they
\* are called on unchanged, whether they return a new factory, return self
\* or raise.
C18_Operations ==
    {"split", "merge", "new_with_restriction", "condense", "apply_condenser",
     "clone_and_exchange_triples", "with_labels"}

C18_SourceUnchanged ==
    [][call'.op \in C18_Operations =>
          /\ tf'.mapped_triples = tf.mapped_triples
          /\ tf'.num_entities = tf.num_entities
          /\ tf'.num_relations = tf.num_relations
          /\ tf'.real_num_relations = tf.real_num_relations
          /\ tf'.create_inverse_triples = tf.create_inverse_triples
          /\ tf'.metadata = tf.metadata
          /\ tf'.entity_to_id = tf.entity_to_id
          /\ tf'.relation_to_id = tf.relation_to_id]_vars

C18_Witness ==
    /\ call.op = "new_with_restriction"
    /\ ~IsNone(call.entities)
    /\ tf.labeled
    /\ Len(tf.mapped_triples) > 0
    /\ ret.raised = "none"
    /\ ret.tf.oid = tf.oid

(***************************************************************************)
(* SubGraphSLCWAInstances.  Tensors indexed by a node or an edge number    *)
(* are sequences, the value for node v (edge i) at position v + 1 (i + 1). *)
(* compute_compressed_adjacency_list gives every node 0..max its adjacency *)
(* list: one entry (edge number, other node) per incidence, a loop twice.  *)
(***************************************************************************)
SubMaxEnt == 3
SubMaxRows == 2
SubMaxEpochs == 2

RECURSIVE AdjList(_, _, _)
AdjList(mapped_triples, v, i) ==
    IF i > Len(mapped_triples) THEN <<>>
    ELSE (IF ColH(mapped_triples[i]) = v THEN <<<<i - 1, ColT(mapped_triples[i])>>>> ELSE <<>>)
         \o (IF ColT(mapped_triples[i]) = v THEN <<<<i - 1, ColH(mapped_triples[i])>>>> ELSE <<>>)
         \o AdjList(mapped_triples, v, i + 1)

RECURSIVE SumSeq(_)
SumSeq(s) == IF Len(s) = 0 THEN 0 ELSE s[1] + SumSeq(Tail(s))

RECURSIVE ConcatLists(_)
ConcatLists(ss) == IF Len(ss) = 0 THEN <<>> ELSE ss[1] \o ConcatLists(Tail(ss))

compute_compressed_adjacency_list(mapped_triples) ==
    LET num_entities == get_num_ids(HeadsAndTails(mapped_triples))
        adj_lists == [v \in 1..num_entities |-> AdjList(mapped_triples, v - 1, 1)]
        degrees == [v \in 1..num_entities |-> Len(adj_lists[v])]
    IN  [degrees |-> degrees,
         offset |-> [v \in 1..num_entities |-> SumSeq(SubSeq(degrees, 1, v - 1))],
         neighbors |-> ConcatLists(adj_lists)]

\* SubGraphSLCWAInstances.__init__: the triples, the batch size and the index
SubGraphSLCWAInstances(mapped_triples, batch_size, drop_last) ==
    [mapped_triples |-> mapped_triples, batch_size |-> batch_size, drop_last |-> drop_last]
        @@ compute_compressed_adjacency_list(mapped_triples)

\* len(self), the number of batches of an epoch
SubLen(self) == SLCWA_len(Len(self.mapped_triples), self.batch_size, self.drop_last)

\* The fields of the instance and of the generator of iter_triple_ids; the
\* other fields of sub are the local variables of a call of subgraph_sample.
SubInstanceFields ==
    {"mapped_triples", "batch_size", "drop_last", "degrees", "offset", "neighbors", "yielded", "epoch"}

\* weights = node_weights * node_picked
SubWeights == [v \in 1..Len(sub.degrees) |-> IF sub.node_picked[v] THEN sub.node_weights[v] ELSE 0]

\* A variant that draws by the weights without the mask of the picked
\* nodes.
SubCandidatesUnmasked ==
    IF SumSeq(sub.node_weights) = 0
    THEN {v \in 1..Len(sub.degrees) : ~sub.node_picked[v]}
    ELSE {v \in 1..Len(sub.degrees) : sub.node_weights[v] > 0}

\* The nodes the next start node is drawn from: a node that is not picked
\* yet if no picked node has weight left, else a picked node with a
\* positive weight (torch.multinomial draws no node of probability zero).
SubCandidates ==
    IF SumSeq(SubWeights) = 0
    THEN {v \in 1..Len(sub.degrees) : ~sub.node_picked[v]}
    ELSE {v \in 1..Len(sub.degrees) : SubWeights[v] > 0}

\* adj_list[chosen_edge_index] for the node at position v
SubEdgeAt(v, chosen_edge_index) == sub.neighbors[sub.offset[v] + chosen_edge_index + 1]

SubInit ==
    /\ IdleCtor /\ IdleFactory /\ IdleLabel /\ IdleMap /\ IdleLCWA /\ IdleSLCWA
    /\ cond = [phase |-> "idle"] /\ es = [phase |-> "idle"]
    /\ \E mapped_triples \in TensorsUpTo(Triples(SubMaxEnt, 1), SubMaxRows) :
           /\ Len(mapped_triples) > 0
           /\ \E batch_size \in 1..Len(mapped_triples), drop_last \in BOOLEAN :
                  sub = [phase |-> "init", yielded |-> 0, epoch |-> 0]
                            @@ SubGraphSLCWAInstances(mapped_triples, batch_size, drop_last)

\* iter_triple_ids, line 262: an epoch starts, after construction or after
\* the epoch before it has yielded all of its batches
SubIterTripleIds ==
    /\ \/ sub.phase = "init"
       \/ sub.phase = "iter" /\ sub.yielded = SubLen(sub)
    /\ sub.epoch < SubMaxEpochs
    /\ sub' = [sub EXCEPT !.phase = "iter", !.yielded = 0, !.epoch = @ + 1]
    /\ UNCHANGED <<ctorVars, factoryVars, labelVars, mapVars, instanceVars, cond, es>>

\* subgraph_sample, lines 211-216: the initialisation
SubgraphSampleBegin ==
    /\ sub.phase = "iter"
    /\ sub.yielded < SubLen(sub)
    /\ sub' = [phase |-> "for",
               node_weights |-> sub.degrees,
               edge_picked |-> [i \in 1..Len(sub.mapped_triples) |-> FALSE],
               node_picked |-> [v \in 1..Len(sub.degrees) |-> FALSE],
               result |-> <<>>] @@ sub
    /\ UNCHANGED <<ctorVars, factoryVars, labelVars, mapVars, instanceVars, cond, es>>

\* lines 217-242: one iteration of the for loop up to the first test of the
\* while loop; torch.randint raises for an empty range.
SubgraphSampleChoose ==
    /\ sub.phase = "for"
    /\ IF SubCandidates = {}
       THEN sub' = [sub EXCEPT !.phase = "raised"]
       ELSE \E chosen_vertex \in SubCandidates :
              IF sub.degrees[chosen_vertex] = 0
              THEN sub' = [phase |-> "raised", chosen_vertex |-> chosen_vertex]
                              @@ [sub EXCEPT !.node_picked[chosen_vertex] = TRUE]
              ELSE \E chosen_edge_index \in 0..(sub.degrees[chosen_vertex] - 1) :
                     sub' = [phase |-> "while", chosen_vertex |-> chosen_vertex,
                             chosen_edge |-> SubEdgeAt(chosen_vertex, chosen_edge_index)]
                                @@ [sub EXCEPT !.node_picked[chosen_vertex] = TRUE]
    /\ UNCHANGED <<ctorVars, factoryVars, labelVars, mapVars, instanceVars, cond, es>>

\* lines 243-246: the drawn edge is picked already, another one is drawn
SubgraphSampleRedraw ==
    /\ sub.phase = "while"
    /\ sub.edge_picked[sub.chosen_edge[1] + 1]
    /\ \E chosen_edge_index \in 0..(sub.degrees[sub.chosen_vertex] - 1) :
           sub' = [sub EXCEPT !.chosen_edge = SubEdgeAt(sub.chosen_vertex, chosen_edge_index)]
    /\ UNCHANGED <<ctorVars, factoryVars, labelVars, mapVars, instanceVars, cond, es>>

\* A variant of the end of the iteration that decreases the weight of the
\* chosen node only.
SubgraphSampleAcceptOneEnd ==
    /\ sub.phase = "while"
    /\ ~sub.edge_picked[sub.chosen_edge[1] + 1]
    /\ LET edge_number == sub.chosen_edge[1]
           other_vertex == sub.chosen_edge[2] + 1
           result == Append(sub.result, edge_number)
       IN  sub' = [sub EXCEPT !.phase = IF Len(result) = sub.batch_size THEN "returned" ELSE "for",
                              !.result = result,
                              !.edge_picked[edge_number + 1] = TRUE,
                              !.node_picked[other_vertex] = TRUE,
                              !.node_weights[sub.chosen_vertex] = @ - 1]
    /\ UNCHANGED <<ctorVars, factoryVars, labelVars, mapVars, instanceVars, cond, es>>

\* A variant without the rejection loop: the drawn edge is taken whether it
\* is picked already or not.
SubgraphSampleAcceptAny ==
    /\ sub.phase = "while"
    /\ LET edge_number == sub.chosen_edge[1]
           other_vertex == sub.chosen_edge[2] + 1
           result == Append(sub.result, edge_number)
           decreased == [sub.node_weights EXCEPT ![sub.chosen_vertex] = @ - 1]
       IN  sub' = [sub EXCEPT !.phase = IF Len(result) = sub.batch_size THEN "returned" ELSE "for",
                              !.result = result,
                              !.edge_picked[edge_number + 1] = TRUE,
                              !.node_picked[other_vertex] = TRUE,
                              !.node_weights = [decreased EXCEPT ![other_vertex] = @ - 1]]
    /\ UNCHANGED <<ctorVars, factoryVars, labelVars, mapVars, instanceVars, cond, es>>

\* A variant of the end of the iteration for node_weights = self.degrees
\* without a copy: the weights and the degrees are one tensor.
SubgraphSampleAcceptShared ==
    /\ sub.phase = "while"
    /\ ~sub.edge_picked[sub.chosen_edge[1] + 1]
    /\ LET edge_number == sub.chosen_edge[1]
           other_vertex == sub.chosen_edge[2] + 1
           result == Append(sub.result, edge_number)
           decreased == [sub.node_weights EXCEPT ![sub.chosen_vertex] = @ - 1]
       IN  sub' = [sub EXCEPT !.phase = IF Len(result) = sub.batch_size THEN "returned" ELSE "for",
                              !.result = result,
                              !.edge_picked[edge_number + 1] = TRUE,
                              !.node_picked[other_vertex] = TRUE,
                              !.node_weights = [decreased EXCEPT ![other_vertex] = @ - 1],
                              !.degrees = [decreased EXCEPT ![other_vertex] = @ - 1]]
    /\ UNCHANGED <<ctorVars, factoryVars, labelVars, mapVars, instanceVars, cond, es>>

\* lines 247-258: the drawn edge is new; it is appended, its end nodes are
\* picked and lose one weight each, and the next iteration or the return follows
SubgraphSampleAccept ==
    /\ sub.phase = "while"
    /\ ~sub.edge_picked[sub.chosen_edge[1] + 1]
    /\ LET edge_number == sub.chosen_edge[1]
           other_vertex == sub.chosen_edge[2] + 1
           result == Append(sub.result, edge_number)
           decreased == [sub.node_weights EXCEPT ![sub.chosen_vertex] = @ - 1]
       IN  sub' = [sub EXCEPT !.phase = IF Len(result) = sub.batch_size THEN "returned" ELSE "for",
                              !.result = result,
                              !.edge_picked[edge_number + 1] = TRUE,
                              !.node_picked[other_vertex] = TRUE,
                              !.node_weights = [decreased EXCEPT ![other_vertex] = @ - 1]]
    /\ UNCHANGED <<ctorVars, factoryVars, labelVars, mapVars, instanceVars, cond, es>>

\* iter_triple_ids, line 262: the batch is yielded and the local variables
\* of the call are gone
SubgraphYield ==
    /\ sub.phase = "returned"
    /\ sub' = [f \in SubInstanceFields \cup {"phase"} |->
                  IF f = "phase" THEN "iter" ELSE IF f = "yielded" THEN sub.yielded + 1 ELSE sub[f]]
    /\ UNCHANGED <<ctorVars, factoryVars, labelVars, mapVars, instanceVars, cond, es>>

SubNext ==
    \/ SubIterTripleIds
    \/ SubgraphSampleBegin
    \/ SubgraphSampleChoose
    \/ SubgraphSampleRedraw
    \/ SubgraphSampleAccept
    \/ SubgraphYield

SpecSubgraph == SubInit /\ [][SubNext]_vars

\* The edges at the chosen node that are not picked yet.
SubUnpickedAtChosen ==
    {k \in 0..(sub.degrees[sub.chosen_vertex] - 1) :
        ~sub.edge_picked[SubEdgeAt(sub.chosen_vertex, k)[1] + 1]}

\* The while loop is only ever at a node that has an edge left to draw.
C17_RejectionLoopCanLeave ==
    sub.phase = "while" => SubUnpickedAtChosen # {}

\* C17: with batch_size <= number of triples, subgraph_sample returns a
\* batch: the rejection-sampling loop is never at a chosen node all of
\* whose incident edges are picked, and the call does not end in an error.
C17_SampleReturnsBatch ==
    /\ sub.phase = "while" => SubUnpickedAtChosen # {}
    /\ sub.phase # "raised"

C17_Witness ==
    /\ sub.phase = "returned"
    /\ sub.batch_size = 2
    /\ Len(sub.result) = 2
    /\ sub.result[1] # sub.result[2]

(***************************************************************************)
(* EarlyStoppingLogic.  Metrics are integers; relative_delta is given in   *)
(* halves (0 for 0.0, 1 for 0.5); best_metric is None while it is the      *)
(* initial -inf or +inf.                                                   *)
(***************************************************************************)
EsMaxPatience == 2
EsMaxMetric == 2
EsMaxEpoch == 2
EsMaxReports == 4

Abs(x) == IF x < 0 THEN 0 - x ELSE x

\* math.isclose(a, b, rel_tol=halves / 2), with the default abs_tol=0.0
isclose(a, b, halves) ==
    a = b \/ 2 * Abs(a - b) <= halves * Max({Abs(a), Abs(b)})

\* is_improvement; a finite value is better than, and not close to, the initial infinity
is_improvement(best_value, current_value, larger_is_better, relative_delta) ==
    IF IsNone(best_value) THEN TRUE
    ELSE LET better == IF larger_is_better THEN current_value > Val(best_value)
                       ELSE current_value < Val(best_value)
         IN  better /\ ~isclose(current_value, Val(best_value), relative_delta)

\* The dataclass fields after __init__ and __post_init__
EarlyStoppingLogic(patience, relative_delta, larger_is_better) ==
    [patience |-> patience,
     relative_delta |-> relative_delta,
     larger_is_better |-> larger_is_better,
     best_epoch |-> None,
     best_metric |-> None,
     remaining_patience |-> patience]

\* A report_result that keeps the remaining patience on an improvement.
ReportResultWithoutReset(self, metric, epoch) ==
    IF ~IsNone(self.best_epoch) /\ epoch <= Val(self.best_epoch)
    THEN [raised |-> "ValueError", value |-> FALSE, self |-> self]
    ELSE LET after ==
                 IF is_improvement(self.best_metric, metric, self.larger_is_better,
                                   self.relative_delta)
                 THEN [self EXCEPT !.best_epoch = Some(epoch), !.best_metric = Some(metric)]
                 ELSE [self EXCEPT !.remaining_patience = @ - 1]
         IN  [raised |-> "none", value |-> after.remaining_patience <= 0, self |-> after]

\* report_result: [raised, value, self], self being the fields after the call
report_result(self, metric, epoch) ==
    IF ~IsNone(self.best_epoch) /\ epoch <= Val(self.best_epoch)
    THEN [raised |-> "ValueError", value |-> FALSE, self |-> self]
    ELSE LET after ==
                 IF is_improvement(self.best_metric, metric, self.larger_is_better,
                                   self.relative_delta)
                 THEN [self EXCEPT !.best_epoch = Some(epoch),
                                   !.best_metric = Some(metric),
                                   !.remaining_patience = self.patience]
                 ELSE [self EXCEPT !.remaining_patience = @ - 1]
         IN  [raised |-> "none", value |-> after.remaining_patience <= 0, self |-> after]

(***************************************************************************)
(* Specification SpecEarlyStopping: an EarlyStoppingLogic and a sequence   *)
(* of reports.  es.self holds the fields, es.before the fields before the  *)
(* last report, es.last that report and its outcome.  History: es.reported *)
(* is the set of epochs a result was accepted for, es.streak the number of *)
(* accepted results since the last improving one, es.reports the number of *)
(* calls.                                                                  *)
(***************************************************************************)
EsInit ==
    /\ IdleCtor /\ IdleFactory /\ IdleLabel /\ IdleMap /\ IdleLCWA /\ IdleSLCWA
    /\ cond = [phase |-> "idle"] /\ sub = [phase |-> "idle"]
    /\ \E patience \in 0..EsMaxPatience, relative_delta \in {0, 1}, larger_is_better \in BOOLEAN :
           es = [phase |-> "created",
                 self |-> EarlyStoppingLogic(patience, relative_delta, larger_is_better),
                 reported |-> {}, streak |-> 0, reports |-> 0]

ReportResult ==
    /\ es.phase \in {"created", "reported"}
    /\ es.reports < EsMaxReports
    /\ \E metric \in 0..EsMaxMetric, epoch \in 0..EsMaxEpoch :
        LET out == report_result(es.self, metric, epoch)
            improved == is_improvement(es.self.best_metric, metric,
                                       es.self.larger_is_better, es.self.relative_delta)
        IN  es' = [phase |-> "reported",
                   self |-> out.self,
                   before |-> es.self,
                   last |-> [metric |-> metric, epoch |-> epoch, raised |-> out.raised,
                             value |-> out.value, improved |-> improved,
                             repeated |-> epoch \in es.reported],
                   reported |-> IF out.raised = "none" THEN es.reported \cup {epoch}
                                ELSE es.reported,
                   streak |-> IF out.raised # "none" THEN es.streak
                              ELSE IF improved THEN 0 ELSE es.streak + 1,
                   reports |-> es.reports + 1]
    /\ UNCHANGED <<ctorVars, factoryVars, labelVars, mapVars, instanceVars, cond, sub>>

EsNext == ReportResult

SpecEarlyStopping == EsInit /\ [][EsNext]_vars

\* A result was reported and accepted.
EsAccepted == es.phase = "reported" /\ es.last.raised = "none"

\* What an accepted result does to the fields.
C19_Update ==
    IF es.last.improved
    THEN /\ es.self.remaining_patience = es.self.patience
         /\ es.self.best_metric = Some(es.last.metric)
         /\ es.self.best_epoch = Some(es.last.epoch)
    ELSE /\ es.self.remaining_patience = es.before.remaining_patience - 1
         /\ es.self.best_metric = es.before.best_metric
         /\ es.self.best_epoch = es.before.best_epoch

\* C19: report_result returns True exactly when the reported result is the
\* patience-th consecutive result without improvement since the last
\* improving result (or since creation), and False for every improving
\* result; an improving result resets remaining_patience to patience and
\* records best_metric and best_epoch, a result without improvement
\* decrements remaining_patience and leaves best_metric and best_epoch.
C19_StopsAtPatienceExactly ==
    EsAccepted =>
        /\ es.last.value <=> (~es.last.improved /\ es.streak = es.self.patience)
        /\ es.last.improved => ~es.last.value
        /\ C19_Update

\* C19 as the code has it: report_result returns True exactly when at least
\* patience consecutive results without improvement have been reported since
\* the last improving result (or since creation), so also for the results
\* after the patience-th and, with patience 0, for an improving result; with
\* patience >= 1 every improving result returns False.  The updates of the
\* fields are as stated.
C19_StopsFromPatienceOn ==
    EsAccepted =>
        /\ es.last.value <=> (es.streak >= es.self.patience)
        /\ (es.last.improved /\ es.self.patience >= 1) => ~es.last.value
        /\ C19_Update

C19_Witness ==
    /\ EsAccepted
    /\ es.self.patience = 2
    /\ ~es.last.improved
    /\ es.streak = 3
    /\ es.last.value
    /\ es.self.remaining_patience = -1

\* C20: report_result raises ValueError whenever a result is reported for an
\* epoch for which a result was already reported, and then best_epoch,
\* best_metric and remaining_patience are unchanged.
C20_RepeatedEpochRaises ==
    (es.phase = "reported" /\ es.last.repeated) =>
        /\ es.last.raised = "ValueError"
        /\ es.self = es.before

C20_Witness ==
    /\ es.phase = "reported"
    /\ es.last.repeated
    /\ es.last.raised = "ValueError"
    /\ es.before.best_epoch = Some(es.last.epoch)
    /\ es.self = es.before

\* The adjacency entries of the node at position v whose edge is picked.
SubPickedEntries(v) ==
    {k \in 0..(sub.degrees[v] - 1) : sub.edge_picked[SubEdgeAt(v, k)[1] + 1]}

\* The sampling state exists: the initialisation of subgraph_sample has run.
SubSampling == sub.phase \in {"for", "while", "returned", "raised"}

\* C21: in subgraph_sample the residual weight of every node is its degree
\* minus the number of its adjacency entries whose edge is picked (an edge
\* counts once for each of its end nodes), no weight is negative, and both
\* end nodes of every picked edge are marked as visited.
C21_ResidualWeights ==
    SubSampling =>
        /\ \A v \in 1..Len(sub.degrees) :
               /\ sub.node_weights[v] = sub.degrees[v] - Cardinality(SubPickedEntries(v))
               /\ sub.node_weights[v] >= 0
        /\ \A i \in 1..Len(sub.mapped_triples) :
               sub.edge_picked[i] =>
                   /\ sub.node_picked[ColH(sub.mapped_triples[i]) + 1]
                   /\ sub.node_picked[ColT(sub.mapped_triples[i]) + 1]

C21_Witness ==
    /\ sub.phase = "returned"
    /\ Len(sub.result) = 2
    /\ \E v \in 1..Len(sub.degrees) : sub.degrees[v] = 2 /\ sub.node_weights[v] = 0
    /\ \E v \in 1..Len(sub.degrees) : sub.degrees[v] = 1 /\ sub.node_weights[v] = 0

\* C22: a batch returned by subgraph_sample holds exactly batch_size edge
\* numbers, each a row index of mapped_triples and no two of them equal; the
\* edges appended so far are exactly the edges marked as picked.
C22_BatchOfDistinctEdges ==
    SubSampling =>
        /\ \A j \in 1..Len(sub.result) : sub.result[j] \in 0..(Len(sub.mapped_triples) - 1)
        /\ \A j, k \in 1..Len(sub.result) : j # k => sub.result[j] # sub.result[k]
        /\ {i \in 1..Len(sub.mapped_triples) : sub.edge_picked[i]} = {e + 1 : e \in Range(sub.result)}
        /\ sub.phase = "returned" => Len(sub.result) = sub.batch_size

\* Both of two triples with a common node are returned: after the first one
\* the second draw at the common node can hit the picked edge again.
C22_Witness ==
    /\ sub.phase = "returned"
    /\ Len(sub.mapped_triples) = 2
    /\ Range(sub.result) = {0, 1}
    /\ \E v \in 1..Len(sub.degrees) : sub.degrees[v] = 2 /\ sub.chosen_vertex = v

\* A picked node has weight left.
SubVisitedWithWeight(s) ==
    \E v \in 1..Len(s.degrees) : s.node_picked[v] /\ s.node_weights[v] > 0

\* The step of subgraph_sample that chooses the vertex of an iteration.
C23_ChooseStep == sub.phase = "for" /\ sub'.phase \in {"while", "raised"}

\* C23: every iteration of subgraph_sample chooses a vertex; if a picked
\* (visited) node has weight left, the chosen vertex is a picked node with
\* a positive weight, otherwise it is a node that is not picked yet.
C23_ChosenVertex ==
    [][C23_ChooseStep =>
          /\ SubCandidates # {}
          /\ IF SubVisitedWithWeight(sub)
             THEN sub.node_picked[sub'.chosen_vertex] /\ sub.node_weights[sub'.chosen_vertex] > 0
             ELSE ~sub.node_picked[sub'.chosen_vertex]]_vars

\* The second iteration is at an end node of the first edge while another
\* node is not picked yet.
C23_Witness ==
    /\ sub.phase = "while"
    /\ Len(sub.result) = 1
    /\ sub.chosen_vertex - 1 \in {ColH(sub.mapped_triples[sub.result[1] + 1]), ColT(sub.mapped_triples[sub.result[1] + 1])}
    /\ \E v \in 1..Len(sub.degrees) : ~sub.node_picked[v] /\ sub.degrees[v] > 0

\* The sampling state a call of subgraph_sample starts from.
SubFresh(s) ==
    /\ s.node_weights = s.degrees
    /\ \A i \in 1..Len(s.mapped_triples) : ~s.edge_picked[i]
    /\ \A v \in 1..Len(s.degrees) : ~s.node_picked[v]
    /\ s.result = <<>>

\* C24: no step of an epoch changes degrees, offset, neighbors or
\* mapped_triples of the instance, and every call of subgraph_sample, the
\* first one and every later one of any epoch, starts with the weights equal
\* to the degrees, no edge picked, no node visited and an empty result; an
\* epoch yields at most len(self) batches.
C24_FreshStateEachSample ==
    [][/\ sub'.degrees = sub.degrees
       /\ sub'.offset = sub.offset
       /\ sub'.neighbors = sub.neighbors
       /\ sub'.mapped_triples = sub.mapped_triples
       /\ sub'.batch_size = sub.batch_size
       /\ (sub.phase = "iter" /\ sub'.phase = "for") => SubFresh(sub')
       /\ sub'.yielded <= SubLen(sub')]_vars

\* A sample of the second epoch has returned.
C24_Witness ==
    /\ sub.phase = "returned"
    /\ sub.epoch = 2
    /\ Len(sub.result) = 1
    /\ sub.yielded = 1

\* The distinct entity IDs in the triples of a factory.
EntitiesInUse(f) == Range(HeadsAndTails(f.mapped_triples))

\* What condense(entities=True, relations=False) is to return for self.
CondensedEntities(self, out) ==
    /\ out.raised = "none"
    /\ \/ out.tf.oid = self.oid
       \/ /\ Len(out.tf.mapped_triples) = Len(self.mapped_triples)
          /\ out.tf.create_inverse_triples = self.create_inverse_triples
          /\ out.tf.real_num_relations = self.real_num_relations
          /\ out.tf.num_relations = self.num_relations
          /\ out.tf.num_entities = Cardinality(EntitiesInUse(self))
    /\ out.tf.num_entities <= self.num_entities
    /\ out.tf.num_relations <= self.num_relations

\* C25: condense(entities=True, relations=False) succeeds on every factory,
\* with or without inverse triples, and returns self or a factory with the
\* same number of triples, the same create_inverse_triples, real_num_relations
\* and num_relations, and as many entities as there are entity IDs in use.
C25_CondenseEntities ==
    (call.op = "condense" /\ call.entities /\ ~call.relations) => CondensedEntities(tf, ret)

\* The same for the factories without inverse triples.
C25_CondenseEntitiesNoInverse ==
    (call.op = "condense" /\ call.entities /\ ~call.relations /\ ~tf.create_inverse_triples)
        => CondensedEntities(tf, ret)

\* A factory with inverse triples whose entity IDs have a gap is condensed.
C25_Witness ==
    /\ call.op = "condense" /\ call.entities /\ ~call.relations
    /\ tf.create_inverse_triples
    /\ Len(tf.mapped_triples) > 0
    /\ EntitiesInUse(tf) # 0..(Cardinality(EntitiesInUse(tf)) - 1)

(***************************************************************************)
(* split_fully_inductive.  pykeen.triples.splitting.split_fully_inductive  *)
(* splits the entities into training entities (group 1) and inference      *)
(* entities (group 2); the training part holds the triples among training  *)
(* entities, and the triples among inference entities are split, with the  *)
(* coverage of splitting.split, into the inference part and the evaluation *)
(* parts.                                                                  *)
(***************************************************************************)
InductiveMaxEnt == 3
InductiveMaxRows == 2
InductiveMaxParts == 2

InducedRows(mapped_triples, g, group) ==
    RowsAt(mapped_triples,
           {i \in 1..Len(mapped_triples) :
              g[ColH(mapped_triples[i])] = group /\ g[ColT(mapped_triples[i])] = group})

splitting_split_fully_inductive(mapped_triples, k) ==
    UNION {{<<InducedRows(mapped_triples, g, 1)>> \o parts :
              parts \in splitting_split(InducedRows(mapped_triples, g, 2), k)} :
           g \in [Entities(mapped_triples) -> {1, 2}]}

\* outcome.tf.apply_condenser(condenser), or the error raised before it
ThenApplyCondenser(outcome, oid, condenser) ==
    IF outcome.raised # "none" THEN outcome ELSE apply_condenser(outcome.tf, oid, condenser)

\* outcome.tf.condense(entities=True, relations=False), or the error raised before it
ThenCondense(outcome, oid) ==
    IF outcome.raised # "none" THEN outcome ELSE condense(outcome.tf, oid, TRUE, FALSE)

\* A variant that condenses every evaluation factory by its own triples.
SplitFullyInductiveOwnCondensers(self, parts) ==
    [j \in 1..Len(parts) |->
        ThenCondense(clone_and_exchange_triples(self, 2 * j, parts[j], {}, TRUE,
                                                IF j <= 2 THEN None ELSE Some(FALSE)),
                     2 * j + 1)]

\* CoreTriplesFactory.split_fully_inductive, lines 842-853, for the parts
\* <<training, inference, evaluation...>> of the split; the clone of part j
\* is object 2j, a factory made by condensing it object 2j + 1.
split_fully_inductive(self, parts) ==
    LET condenser == TripleCondenser_make(parts[2], TRUE, FALSE)
    IN  [j \in 1..Len(parts) |->
            IF j = 1
            THEN ThenCondense(clone_and_exchange_triples(self, 2, parts[1], {}, TRUE, None), 3)
            ELSE ThenApplyCondenser(
                     clone_and_exchange_triples(self, 2 * j, parts[j], {}, TRUE,
                                                IF j = 2 THEN None ELSE Some(FALSE)),
                     2 * j + 1, condenser)]

InductiveInit ==
    /\ tf \in FactoriesOver(InductiveMaxEnt, 1, InductiveMaxRows, {})
    /\ call = [op |-> "idle"]
    /\ ret = [op |-> "idle"]
    /\ IdleCtor /\ IdleLabel /\ IdleMap /\ IdleLCWA /\ IdleSLCWA /\ IdleAux

SplitFullyInductive ==
    /\ call.op = "idle"
    /\ \E k \in 2..InductiveMaxParts :
        \E parts \in splitting_split_fully_inductive(tf.mapped_triples, k) :
            /\ call' = [op |-> "split_fully_inductive", parts |-> parts]
            /\ ret' = ListOutcome("split_fully_inductive", split_fully_inductive(tf, parts))
    /\ UNCHANGED <<tf, ctorVars, labelVars, mapVars, instanceVars, auxVars>>

InductiveNext == SplitFullyInductive

SpecInductive == InductiveInit /\ [][InductiveNext]_vars

\* The ID of entity e when the entities of mapped_triples are numbered
\* 0, 1, ... in their order.
RankAmong(mapped_triples, e) == Cardinality({x \in Entities(mapped_triples) : x < e})

\* target holds the rows of part with the entities numbered as in reference
\* and the relations as they were.
RenumberedBy(target, part, reference) ==
    /\ Len(target) = Len(part)
    /\ \A i \in 1..Len(part) :
           target[i] = <<RankAmong(reference, ColH(part[i])), ColR(part[i]),
                         RankAmong(reference, ColT(part[i]))>>

\* C26: of the factories split_fully_inductive returns, the inference
\* factory and every evaluation factory hold their part of the triples with
\* the entities renumbered by one and the same numbering, that of the
\* inference triples, and have the same num_entities (and entity labeling);
\* relation IDs are kept; the evaluation factories have no inverse triples;
\* the training factory is renumbered by its own triples.
C26_SharedInferenceCondenser ==
    (call.op = "split_fully_inductive" /\ ret.raised = "none") =>
        /\ Len(ret.out) = Len(call.parts)
        /\ RenumberedBy(ret.out[1].mapped_triples, call.parts[1], call.parts[1])
        /\ \A j \in 2..Len(call.parts) :
               /\ RenumberedBy(ret.out[j].mapped_triples, call.parts[j], call.parts[2])
               /\ ret.out[j].num_entities = ret.out[2].num_entities
               /\ ret.out[j].entity_to_id = ret.out[2].entity_to_id
               /\ j > 2 => ~ret.out[j].create_inverse_triples

\* The inference entities are renumbered and the evaluation triples hold
\* only some of them.
C26_Witness ==
    /\ call.op = "split_fully_inductive" /\ ret.raised = "none"
    /\ Len(call.parts) = 3
    /\ Len(call.parts[3]) > 0
    /\ Entities(call.parts[3]) # Entities(call.parts[2])
    /\ \E e \in Entities(call.parts[3]) : RankAmong(call.parts[2], e) # e
    /\ ret.out[3].mapped_triples # call.parts[3]

(***************************************************************************)
(* Training instances from a factory.  Specification SpecInstances: LCWA   *)
(* or sLCWA instances are created from a factory by from_triples_factory.  *)
(***************************************************************************)
InstMaxEnt == 2
InstMaxRel == 2
InstMaxRows == 2

\* BaseBatchedSLCWAInstances.from_triples_factory with the keyword arguments
\* shuffle and sampler (None: not given) and drop_last; batch_size is left
\* at its default, 1
SLCWA_from_triples_factory(self, shuffle, sampler, drop_last) ==
    IF ~IsNone(shuffle) /\ ~Val(shuffle) THEN [phase |-> "raised", raised |-> "AssertionError"]
    ELSE IF ~IsNone(sampler) THEN [phase |-> "raised", raised |-> "AssertionError"]
    ELSE [phase |-> "created",
          mapped_triples |-> add_inverse_triples_if_necessary(self, self.mapped_triples),
          num_entities |-> self.num_entities,
          num_relations |-> self.num_relations,
          batch_size |-> 1,
          drop_last |-> drop_last]

InstancesInit ==
    /\ tf \in FactoriesOver(InstMaxEnt, InstMaxRel, InstMaxRows, {})
    /\ call = [op |-> "idle"]
    /\ ret = [op |-> "idle"]
    /\ lcwa = [done |-> FALSE]
    /\ slcwa = [phase |-> "idle"]
    /\ IdleCtor /\ IdleLabel /\ IdleMap /\ IdleAux

CreateSLCWAInstances ==
    /\ slcwa.phase = "idle"
    /\ \E shuffle \in {None, Some(TRUE), Some(FALSE)}, sampler \in {None, Some("schlichtkrull")},
          drop_last \in BOOLEAN :
        slcwa' = SLCWA_from_triples_factory(tf, shuffle, sampler, drop_last)
    /\ UNCHANGED <<factoryVars, lcwa, ctorVars, labelVars, mapVars, auxVars>>

InstancesNext == CreateLCWAInstances \/ CreateSLCWAInstances

SpecInstances == InstancesInit /\ [][InstancesNext]_vars

\* out is mapped_triples with the inverse triples added: the rows of
\* mapped_triples with a forward relation ID each, then their reversed rows
\* with an inverse relation ID each; equal relations have equal forward and
\* equal inverse IDs, different relations different ones, no inverse ID is
\* a forward ID, and all IDs are below num_relations.
IsAugmented(out, mapped_triples, num_relations) ==
    LET n == Len(mapped_triples)
    IN  /\ Len(out) = 2 * n
        /\ \A i \in 1..n :
               /\ ColH(out[i]) = ColH(mapped_triples[i])
               /\ ColT(out[i]) = ColT(mapped_triples[i])
               /\ ColH(out[n + i]) = ColT(mapped_triples[i])
               /\ ColT(out[n + i]) = ColH(mapped_triples[i])
               /\ ColR(out[i]) \in 0..(num_relations - 1)
               /\ ColR(out[n + i]) \in 0..(num_relations - 1)
        /\ \A i, j \in 1..n :
               /\ ColR(out[n + i]) # ColR(out[j])
               /\ (ColR(mapped_triples[i]) = ColR(mapped_triples[j])) <=> (ColR(out[i]) = ColR(out[j]))
               /\ (ColR(mapped_triples[i]) = ColR(mapped_triples[j])) <=> (ColR(out[n + i]) = ColR(out[n + j]))

AugmentedFor(out, f) ==
    IF f.create_inverse_triples THEN IsAugmented(out, f.mapped_triples, f.num_relations)
    ELSE out = f.mapped_triples

AgainMaxEnt == 2
AgainMaxRows == 2

RestrictAgainInit ==
    /\ tf \in FactoriesOver(AgainMaxEnt, 1, AgainMaxRows, {})
    /\ call = [op |-> "idle"]
    /\ ret = [op |-> "idle"]
    /\ IdleCtor /\ IdleLabel /\ IdleMap /\ IdleLCWA /\ IdleSLCWA /\ IdleAux

\* The caller goes on with the new factory the restriction returned.
RestrictAdopt ==
    /\ call.op = "new_with_restriction"
    /\ ret.raised = "none"
    /\ ret.tf.oid # tf.oid
    /\ tf' = [ret.tf EXCEPT !.oid = 1]
    /\ call' = [op |-> "idle"]
    /\ ret' = [op |-> "idle"]
    /\ UNCHANGED <<ctorVars, labelVars, mapVars, instanceVars, auxVars>>

RestrictAgainNext == NewWithRestriction \/ RestrictAdopt

SpecRestrictAgain == RestrictAgainInit /\ [][RestrictAgainNext]_vars

\* metadata[key] is the selection of the call, as IDs (a labeled factory
\* turns a selection of labels into IDs before it records it)
C28_Records(metadata, key, selection, label_to_id) ==
    ~IsNone(selection) =>
        /\ key \in Keys(metadata)
        /\ Get(metadata, key) = C11_SelectedIds(selection, label_to_id)

\* C28: the metadata of a new factory returned by new_with_restriction holds
\* the entity selection and the relation selection of that call, also when
\* the receiver came from an earlier restriction with other selections.
C28_MetadataOfThisCall ==
    (call.op = "new_with_restriction" /\ ret.raised = "none" /\ ret.tf.oid # tf.oid) =>
        /\ C28_Records(ret.tf.metadata, "entity_restriction", call.entities, tf.entity_to_id)
        /\ C28_Records(ret.tf.metadata, "relation_restriction", call.relations, tf.relation_to_id)

\* The same for a receiver whose metadata holds no restriction yet.
C28_MetadataOfFirstCall ==
    (call.op = "new_with_restriction" /\ ret.raised = "none" /\ ret.tf.oid # tf.oid
        /\ Keys(tf.metadata) \cap {"entity_restriction", "relation_restriction"} = {}) =>
        /\ C28_Records(ret.tf.metadata, "entity_restriction", call.entities, tf.entity_to_id)
        /\ C28_Records(ret.tf.metadata, "relation_restriction", call.relations, tf.relation_to_id)

\* A factory that came from an entity restriction is restricted by other
\* entities, and a new factory is returned.
C28_Witness ==
    /\ call.op = "new_with_restriction" /\ ret.raised = "none" /\ ret.tf.oid # tf.oid
    /\ "entity_restriction" \in Keys(tf.metadata)
    /\ ~IsNone(call.entities)
    /\ ~Val(call.entities).labels
    /\ Val(call.entities).items # Get(tf.metadata, "entity_restriction")

(***************************************************************************)
(* EarlyStopper.  The file at best_model_path is a record: exists, own     *)
(* (written by this stopper) and epoch (the epoch it was written at).  The *)
(* evaluator's metric is an input of the call.  load, save and callbacks   *)
(* of a call are recorded with its outcome.                                *)
(***************************************************************************)
StopperMaxCalls == 3

NoCheckpoint == [exists |-> FALSE, own |-> FALSE, epoch |-> 0]
ForeignCheckpoint == [exists |-> TRUE, own |-> FALSE, epoch |-> 0]
SavedCheckpoint(epoch) == [exists |-> TRUE, own |-> TRUE, epoch |-> epoch]

\* EarlyStoppingLogic.is_best
is_best(self) == self.remaining_patience = self.patience

\* The dataclass fields after __init__ and __post_init__, and the file
EarlyStopper(patience, relative_delta, larger_is_better, clean_up_checkpoint, file) ==
    [stopper |-> EarlyStoppingLogic(patience, relative_delta, larger_is_better),
     results |-> <<>>,
     stopped |-> FALSE,
     clean_up_checkpoint |-> clean_up_checkpoint,
     file |-> file]

\* should_stop for the metric result of the evaluation: [raised, value, self]
\* and, of the call, the callbacks run and whether it came to torch.load
\* and to torch.save
should_stop(self, result, epoch) ==
    LET appended == [self EXCEPT !.results = Append(@, result)]
        out == report_result(self.stopper, result, epoch)
        reported == [appended EXCEPT !.stopper = out.self, !.stopped = out.value]
    IN  IF out.raised # "none"
        THEN [raised |-> out.raised, value |-> FALSE, self |-> appended,
              callbacks |-> {"result"}, loads |-> FALSE, saves |-> FALSE]
        ELSE IF out.value
        THEN IF ~self.file.exists
             THEN [raised |-> "FileNotFoundError", value |-> FALSE, self |-> reported,
                   callbacks |-> {"result", "stopped"}, loads |-> TRUE, saves |-> FALSE]
             ELSE [raised |-> "none", value |-> TRUE,
                   self |-> IF self.clean_up_checkpoint
                            THEN [reported EXCEPT !.file = NoCheckpoint] ELSE reported,
                   callbacks |-> {"result", "stopped"}, loads |-> TRUE, saves |-> FALSE]
        ELSE [raised |-> "none", value |-> FALSE,
              self |-> IF is_best(out.self)
                       THEN [reported EXCEPT !.file = SavedCheckpoint(epoch)] ELSE reported,
              callbacks |-> {"result", "continue"}, loads |-> FALSE, saves |-> is_best(out.self)]

(***************************************************************************)
(* Specification SpecEarlyStopper: an EarlyStopper and a sequence of calls *)
(* of should_stop.  es.self holds the fields, es.before the fields before  *)
(* the last call, es.last that call and its outcome; es.stops counts the   *)
(* calls that stopped before the last call.                                *)
(***************************************************************************)
StopperInit ==
    /\ IdleCtor /\ IdleFactory /\ IdleLabel /\ IdleMap /\ IdleLCWA /\ IdleSLCWA
    /\ cond = [phase |-> "idle"] /\ sub = [phase |-> "idle"]
    /\ \E patience \in 0..EsMaxPatience, clean_up_checkpoint \in BOOLEAN,
          file \in {NoCheckpoint, ForeignCheckpoint} :
           es = [phase |-> "created",
                 self |-> EarlyStopper(patience, 0, TRUE, clean_up_checkpoint, file),
                 stops |-> 0]

ShouldStop ==
    /\ es.phase \in {"created", "called"}
    /\ Len(es.self.results) < StopperMaxCalls
    /\ \E result \in 0..EsMaxMetric, epoch \in 0..EsMaxEpoch :
        LET out == should_stop(es.self, result, epoch)
        IN  es' = [phase |-> "called",
                   self |-> out.self,
                   before |-> es.self,
                   last |-> [result |-> result, epoch |-> epoch, raised |-> out.raised,
                             value |-> out.value, callbacks |-> out.callbacks,
                             loads |-> out.loads, saves |-> out.saves,
                             improved |-> is_improvement(es.self.stopper.best_metric, result,
                                                         es.self.stopper.larger_is_better,
                                                         es.self.stopper.relative_delta)],
                   stops |-> IF es.phase = "called" /\ es.last.loads THEN es.stops + 1
                             ELSE es.stops]
    /\ UNCHANGED <<ctorVars, factoryVars, labelVars, mapVars, instanceVars, cond, sub>>

StopperNext == ShouldStop

SpecEarlyStopper == StopperInit /\ [][StopperNext]_vars

\* What is claimed of the last call of should_stop.
C29_LastCall ==
    /\ es.last.loads =>
           /\ es.before.file.exists
           /\ es.before.file.own
           /\ Some(es.before.file.epoch) = es.self.stopper.best_epoch
    /\ es.last.raised # "ValueError" =>
           /\ es.last.saves <=> (es.last.improved /\ ~es.self.stopped)
           /\ Len(es.self.results) = Len(es.before.results) + 1
           /\ Cardinality(es.last.callbacks \cap {"stopped", "continue"}) = 1

\* C29: for every patience and every sequence of calls, calls after a stop
\* included, a call of should_stop that re-loads the best weights finds the
\* checkpoint an earlier call saved at the best epoch; the checkpoint is
\* saved exactly in the calls with a new best result that do not stop;
\* every call appends one result and runs either the stopped or the
\* continue callbacks.
C29_ReloadFindsCheckpoint == es.phase = "called" => C29_LastCall

\* The same for a patience of at least 1 and the calls up to the first stop,
\* or all calls if the checkpoint is not cleaned up.
C29_ReloadFindsCheckpointFirstStop ==
    (es.phase = "called" /\ es.self.stopper.patience >= 1
        /\ (es.stops = 0 \/ ~es.self.clean_up_checkpoint)) => C29_LastCall

\* A stopper of patience 0 is asked for the first time.
C29_Witness ==
    /\ es.phase = "called"
    /\ es.self.stopper.patience = 0
    /\ Len(es.self.results) = 1
    /\ es.last.loads

\* C30: to_core_triples_factory returns a core factory with the
\* mapped_triples, num_entities, real_num_relations, num_relations and
\* create_inverse_triples of the labeled factory it is called on, with and
\* without inverse triples.
C30_CoreFactoryKeepsCounts ==
    call.op = "to_core_triples_factory" =>
        /\ ret.raised = "none"
        /\ ~ret.tf.labeled
        /\ ret.tf.mapped_triples = tf.mapped_triples
        /\ ret.tf.num_entities = tf.num_entities
        /\ ret.tf.real_num_relations = tf.real_num_relations
        /\ ret.tf.num_relations = tf.num_relations
        /\ ret.tf.create_inverse_triples = tf.create_inverse_triples

\* The same for the factories without inverse triples.
C30_CoreFactoryKeepsCountsNoInverse ==
    (call.op = "to_core_triples_factory" /\ ~tf.create_inverse_triples) =>
        /\ ret.raised = "none"
        /\ ~ret.tf.labeled
        /\ ret.tf.mapped_triples = tf.mapped_triples
        /\ ret.tf.num_entities = tf.num_entities
        /\ ret.tf.real_num_relations = tf.real_num_relations
        /\ ret.tf.num_relations = tf.num_relations
        /\ ret.tf.create_inverse_triples = tf.create_inverse_triples

\* A labeled factory with inverse triples is turned into a core factory.
C30_Witness ==
    /\ call.op = "to_core_triples_factory"
    /\ tf.labeled
    /\ tf.create_inverse_triples
    /\ Len(tf.mapped_triples) > 0
    /\ ret.raised = "none"

=============================================================================
